---------------------------- MODULE Spec2Model ----------------------------
(***************************************************************************)
(* Gymbo: gradient-guided symbolic execution (libgymbo).                   *)
(*                                                                         *)
(* Values are integer-valued floats (eps = 1, lr = 1, integer initial      *)
(* parameters), so float arithmetic is exact integer arithmetic here.      *)
(* A Word32 is represented by its two's-complement int32 view, so that     *)
(* wordToInt (a static_cast) keeps the representation, and FloatToWord /   *)
(* wordToFloat are the IEEE-754 single-precision encoding of integers.     *)
(***************************************************************************)
EXTENDS Integers, Sequences, FiniteSets, TLC

(***************************************************************************)
(* Word and utilities (utils.h)                                            *)
(***************************************************************************)

\* An uninitialised int/Word32 field of a Sym (a constructor that does not
\* set it); reading it yields an arbitrary value, see ReadField.
Undef == -77777

Abs(x) == IF x < 0 THEN 0 - x ELSE x

Max(a, b) == IF a >= b THEN a ELSE b

Pow2(k) == IF k <= 0 THEN 1 ELSE 2 ^ k

\* the position of the leading bit of n, for 1 <= n < 2^31
Log2(n) == IF n < 2 THEN 0 ELSE CHOOSE e \in 1..30 : Pow2(e) <= n /\ n \div 2 < Pow2(e)

\* memcpy of the float's bits into a uint32 (integer-valued floats, |v| < 2^24)
FloatToWord(v) ==
    IF v = 0 THEN 0
    ELSE LET a == Abs(v)
             e == Log2(a)
             bits == (127 + e) * Pow2(23) + (a - Pow2(e)) * Pow2(23 - e)
         IN  IF v > 0 THEN bits ELSE (bits - 2147483647) - 1

\* memcpy of the word's bits into a float; magnitudes below 1 (denormals,
\* small raw integers) have no integer value and truncate to 0 here
wordToFloat(w) ==
    LET m == IF w < 0 THEN (w + 2147483647) + 1 ELSE w
        ex == (m \div Pow2(23)) - 127
        mant == m % Pow2(23)
        mag == IF ex < 0 THEN 0
               ELSE IF ex <= 23 THEN (Pow2(23) + mant) \div Pow2(23 - ex)
               ELSE (Pow2(23) + mant) * Pow2(ex - 23)
    IN  IF w < 0 THEN 0 - mag ELSE mag

wordToInt(w) == w

Digit(d) == CASE d = 0 -> "0" [] d = 1 -> "1" [] d = 2 -> "2" [] d = 3 -> "3"
              [] d = 4 -> "4" [] d = 5 -> "5" [] d = 6 -> "6" [] d = 7 -> "7"
              [] d = 8 -> "8" [] OTHER -> "9"

RECURSIVE NatToString(_)
NatToString(n) == IF n < 10 THEN Digit(n)
                  ELSE NatToString(n \div 10) \o Digit(n % 10)

\* std::to_string(int)
to_string(n) == IF n < 0 THEN "-" \o NatToString(0 - n) ELSE NatToString(n)


(***************************************************************************)
(* Finite maps (std::unordered_map)                                        *)
(***************************************************************************)

EmptyMap == << >>

\* the value v handed to F: a value computed once and used in several places
With(v, F(_)) == F(v)

MapPut(m, k, v) == [x \in (DOMAIN m) \cup {k} |-> IF x = k THEN v ELSE m[x]]

\* unordered_map::emplace keeps an existing entry
MapEmplace(m, k, v) == IF k \in DOMAIN m THEN m ELSE MapPut(m, k, v)

(***************************************************************************)
(* Sym: symbolic expressions (type.h)                                      *)
(***************************************************************************)

\* no Sym: a pointer that is not set, or the data behind a NULL tail
NoSym == [symtype |-> "none", word |-> Undef, var_idx |-> Undef]

\* Sym(SymType symtype, Word32 val), symtype /= SAny: only word is set
SymCon(w) == [symtype |-> "SCon", left |-> NoSym, right |-> NoSym,
              word |-> w, var_idx |-> Undef, assign |-> EmptyMap]

\* Sym(SymType::SAny, val): only var_idx is set
SymAny(v) == [symtype |-> "SAny", left |-> NoSym, right |-> NoSym,
              word |-> Undef, var_idx |-> v, assign |-> EmptyMap]

\* Sym(SymType symtype, Sym *left): word and var_idx stay uninitialised
SymUn(t, l) == [symtype |-> t, left |-> l, right |-> NoSym,
                word |-> Undef, var_idx |-> Undef, assign |-> EmptyMap]

\* Sym(SymType symtype, Sym *left, Sym *right)
SymBin(t, l, r) == [symtype |-> t, left |-> l, right |-> r,
                    word |-> Undef, var_idx |-> Undef, assign |-> EmptyMap]

\* Sym(SymType symtype, Sym *left, std::unordered_map<int, float> &assign)
SymCnt(l, a) == [symtype |-> "SCnt", left |-> l, right |-> NoSym,
                 word |-> Undef, var_idx |-> Undef, assign |-> a]

ArithTypes == {"SAdd", "SSub", "SMul"}

ArithOp(t, a, b) == CASE t = "SAdd" -> a + b
                      [] t = "SSub" -> a - b
                      [] OTHER -> a * b

RECURSIVE gather_var_ids(_)
gather_var_ids(s) ==
    CASE s.symtype \in {"SAdd", "SSub", "SMul", "SEq", "SAnd", "SOr", "SLt", "SLe"} ->
            gather_var_ids(s.left) \cup gather_var_ids(s.right)
      [] s.symtype = "SAny" -> {s.var_idx}
      [] s.symtype = "SNot" -> gather_var_ids(s.left)
      [] s.symtype = "SCnt" -> gather_var_ids(s.left) \ DOMAIN s.assign
      [] OTHER -> {}

RECURSIVE psimplify(_, _)
psimplify(s, cvals) ==
    CASE s.symtype = "SAny" ->
            IF s.var_idx \in DOMAIN cvals THEN SymCon(cvals[s.var_idx]) ELSE s
      [] s.symtype \in ArithTypes ->
            IF s.left.symtype = "SCon" /\ s.right.symtype = "SCon"
            THEN SymCon(FloatToWord(ArithOp(s.symtype, wordToFloat(s.left.word),
                                            wordToFloat(s.right.word))))
            ELSE LET tmp_left == psimplify(s.left, cvals)
                     tmp_right == psimplify(s.right, cvals)
                 IN  IF tmp_left.symtype = "SCon" /\ tmp_right.symtype = "SCon"
                     THEN SymCon(FloatToWord(ArithOp(s.symtype,
                                                     wordToFloat(tmp_left.word),
                                                     wordToFloat(tmp_right.word))))
                     ELSE SymBin(s.symtype, tmp_left, tmp_right)
      [] s.symtype \in {"SEq", "SAnd", "SOr", "SLt", "SLe"} ->
            SymBin(s.symtype, psimplify(s.left, cvals), psimplify(s.right, cvals))
      [] s.symtype \in {"SNot", "SCnt"} ->
            SymUn(s.symtype, psimplify(s.left, cvals))
      [] OTHER -> s

\* an evaluation whose negation is the bare sign change, without the slack
RECURSIVE evalNotWithoutSlack(_, _, _)
evalNotWithoutSlack(s, cvals, eps) ==
    CASE s.symtype \in ArithTypes ->
            ArithOp(s.symtype, evalNotWithoutSlack(s.left, cvals, eps),
                    evalNotWithoutSlack(s.right, cvals, eps))
      [] s.symtype = "SCon" -> wordToFloat(s.word)
      [] s.symtype = "SCnt" ->
            IF s.left.symtype \in ArithTypes \cup {"SCon", "SCnt", "SAny"} THEN 1
            ELSE IF evalNotWithoutSlack(s.left, cvals, eps) <= 0 THEN 1 ELSE 0
      [] s.symtype = "SAny" -> cvals[s.var_idx]
      [] s.symtype = "SEq" -> Abs(evalNotWithoutSlack(s.left, cvals, eps) -
                                  evalNotWithoutSlack(s.right, cvals, eps))
      [] s.symtype = "SNot" -> evalNotWithoutSlack(s.left, cvals, eps) * (-1)
      [] s.symtype = "SAnd" -> Max(0, evalNotWithoutSlack(s.left, cvals, eps)) +
                               Max(0, evalNotWithoutSlack(s.right, cvals, eps))
      [] s.symtype = "SOr" -> Max(0, evalNotWithoutSlack(s.left, cvals, eps)) *
                              Max(0, evalNotWithoutSlack(s.right, cvals, eps))
      [] s.symtype = "SLt" -> evalNotWithoutSlack(s.left, cvals, eps) -
                              evalNotWithoutSlack(s.right, cvals, eps) + eps
      [] s.symtype = "SLe" -> evalNotWithoutSlack(s.left, cvals, eps) -
                              evalNotWithoutSlack(s.right, cvals, eps)
      [] OTHER -> 0

\* Sym::eval(cvals, eps); cvals.at(var_idx) needs var_idx in cvals
RECURSIVE eval(_, _, _)
eval(s, cvals, eps) ==
    CASE s.symtype \in ArithTypes ->
            ArithOp(s.symtype, eval(s.left, cvals, eps), eval(s.right, cvals, eps))
      [] s.symtype = "SCon" -> wordToFloat(s.word)
      [] s.symtype = "SCnt" ->
            IF s.left.symtype \in ArithTypes \cup {"SCon", "SCnt", "SAny"} THEN 1
            ELSE IF eval(s.left, cvals, eps) <= 0 THEN 1 ELSE 0
      [] s.symtype = "SAny" -> cvals[s.var_idx]
      [] s.symtype = "SEq" -> Abs(eval(s.left, cvals, eps) - eval(s.right, cvals, eps))
      [] s.symtype = "SNot" -> eval(s.left, cvals, eps) * (-1) + eps
      [] s.symtype = "SAnd" -> Max(0, eval(s.left, cvals, eps)) +
                               Max(0, eval(s.right, cvals, eps))
      [] s.symtype = "SOr" -> Max(0, eval(s.left, cvals, eps)) *
                              Max(0, eval(s.right, cvals, eps))
      [] s.symtype = "SLt" -> eval(s.left, cvals, eps) - eval(s.right, cvals, eps) + eps
      [] s.symtype = "SLe" -> eval(s.left, cvals, eps) - eval(s.right, cvals, eps)
      [] OTHER -> 0

\* an emplace that overwrites the entries cvals has already
EmplaceAllOverwrite(cvals, assign) ==
    [x \in (DOMAIN cvals) \cup (DOMAIN assign) |->
        IF x \in DOMAIN assign THEN assign[x] ELSE cvals[x]]

\* the variables whose values Sym::eval looks up with cvals.at
RECURSIVE EvalReads(_)
EvalReads(s) ==
    CASE s.symtype = "SAny" -> {s.var_idx}
      [] s.symtype = "SCon" -> {}
      [] s.symtype = "SCnt" ->
            IF s.left.symtype \in ArithTypes \cup {"SCon", "SCnt", "SAny"} THEN {}
            ELSE EvalReads(s.left)
      [] s.symtype = "SNot" -> EvalReads(s.left)
      [] s.symtype = "none" -> {}
      [] OTHER -> EvalReads(s.left) \cup EvalReads(s.right)

\* for (a : assign) cvals.emplace(a.first, a.second)
EmplaceAll(cvals, assign) ==
    [x \in (DOMAIN cvals) \cup (DOMAIN assign) |->
        IF x \in DOMAIN cvals THEN cvals[x] ELSE assign[x]]

\* Sym::aeval(cvals, eps): a node that carries an assign is evaluated under
\* cvals extended by it (emplace keeps the entries cvals has already)
RECURSIVE aeval(_, _, _)
aeval(s, cvals, eps) ==
    IF s.symtype /= "none" /\ s.assign /= EmptyMap
    THEN aeval([s EXCEPT !.assign = EmptyMap], EmplaceAll(cvals, s.assign), eps)
    ELSE
    CASE s.symtype = "SAdd" -> aeval(s.left, cvals, eps) + aeval(s.right, cvals, eps)
      [] s.symtype = "SSub" -> aeval(s.left, cvals, eps) - aeval(s.right, cvals, eps)
      [] s.symtype = "SMul" -> aeval(s.left, cvals, eps) * aeval(s.right, cvals, eps)
      [] s.symtype = "SCon" -> wordToFloat(s.word)
      [] s.symtype = "SCnt" ->
            IF s.left.symtype \in ArithTypes \cup {"SCon", "SCnt", "SAny"} THEN 1
            ELSE IF aeval(s.left, cvals, eps) <= 0 THEN 1 ELSE 0
      [] s.symtype = "SAny" -> cvals[s.var_idx]
      [] s.symtype = "SEq" -> Abs(aeval(s.left, cvals, eps) - aeval(s.right, cvals, eps))
      [] s.symtype = "SNot" -> aeval(s.left, cvals, eps) * (-1) + eps
      [] s.symtype = "SAnd" -> Max(0, aeval(s.left, cvals, eps)) +
                               Max(0, aeval(s.right, cvals, eps))
      [] s.symtype = "SOr" -> Max(0, aeval(s.left, cvals, eps)) *
                              Max(0, aeval(s.right, cvals, eps))
      [] s.symtype = "SLt" -> aeval(s.left, cvals, eps) - aeval(s.right, cvals, eps) + eps
      [] s.symtype = "SLe" -> aeval(s.left, cvals, eps) - aeval(s.right, cvals, eps)
      [] OTHER -> 0

(***************************************************************************)
(* Grad: sparse gradients (type.h)                                         *)
(***************************************************************************)

\* Grad::operator+(const Grad &)
GradAdd(g, h) ==
    [x \in (DOMAIN g) \cup (DOMAIN h) |->
        IF x \in DOMAIN g
        THEN (IF x \in DOMAIN h THEN g[x] + h[x] ELSE g[x])
        ELSE h[x]]

\* Grad::operator-(const Grad &)
GradSub(g, h) ==
    [x \in (DOMAIN g) \cup (DOMAIN h) |->
        IF x \in DOMAIN g
        THEN (IF x \in DOMAIN h THEN g[x] - h[x] ELSE g[x])
        ELSE (-1) * h[x]]

\* Grad::operator*(float)
GradScale(g, w) == [x \in DOMAIN g |-> g[x] * w]

\* Sym::grad(cvals, eps)
RECURSIVE grad(_, _, _)
grad(s, cvals, eps) ==
    CASE s.symtype = "SAdd" -> GradAdd(grad(s.left, cvals, eps), grad(s.right, cvals, eps))
      [] s.symtype = "SSub" -> GradSub(grad(s.left, cvals, eps), grad(s.right, cvals, eps))
      [] s.symtype = "SMul" ->
            GradAdd(GradScale(grad(s.left, cvals, eps), eval(s.right, cvals, eps)),
                    GradScale(grad(s.right, cvals, eps), eval(s.left, cvals, eps)))
      [] s.symtype = "SCon" -> EmptyMap
      [] s.symtype = "SCnt" ->
            IF s.left.symtype \in ArithTypes \cup {"SCon", "SCnt", "SAny"} THEN EmptyMap
            ELSE IF eval(s.left, cvals, eps) <= 0 THEN grad(s.left, cvals, eps)
            ELSE GradScale(grad(s.left, cvals, eps), -1)
      [] s.symtype = "SAny" -> MapPut(EmptyMap, s.var_idx, 1)
      [] s.symtype = "SEq" ->
            LET lv == eval(s.left, cvals, eps)
                rv == eval(s.right, cvals, eps)
                lg == grad(s.left, cvals, eps)
                rg == grad(s.right, cvals, eps)
            IN  IF lv = rv THEN EmptyMap
                ELSE IF lv > rv THEN GradSub(lg, rg) ELSE GradSub(rg, lg)
      [] s.symtype = "SNot" -> GradScale(grad(s.left, cvals, eps), -1)
      [] s.symtype = "SAnd" ->
            LET lv == eval(s.left, cvals, eps)
                rv == eval(s.right, cvals, eps)
                res1 == IF lv > 0 THEN GradAdd(EmptyMap, grad(s.left, cvals, eps))
                        ELSE EmptyMap
            IN  IF rv > 0 THEN GradAdd(res1, grad(s.right, cvals, eps)) ELSE res1
      [] s.symtype = "SOr" ->
            LET lv == eval(s.left, cvals, eps)
                rv == eval(s.right, cvals, eps)
            IN  IF lv > 0 /\ rv > 0
                THEN GradAdd(GradScale(grad(s.left, cvals, eps), rv),
                             GradScale(grad(s.right, cvals, eps), lv))
                ELSE EmptyMap
      [] s.symtype \in {"SLt", "SLe"} ->
            GradSub(grad(s.left, cvals, eps), grad(s.right, cvals, eps))
      [] OTHER -> EmptyMap

\* Sym::toString(true): constants print as (int) wordToFloat(word)
RECURSIVE SymToString(_)
SymToString(s) ==
    CASE s.symtype = "SAdd" -> "(" \o SymToString(s.left) \o "+" \o SymToString(s.right) \o ")"
      [] s.symtype = "SSub" -> "(" \o SymToString(s.left) \o "-" \o SymToString(s.right) \o ")"
      [] s.symtype = "SMul" -> "(" \o SymToString(s.left) \o "*" \o SymToString(s.right) \o ")"
      [] s.symtype = "SCon" -> to_string(wordToFloat(s.word))
      [] s.symtype = "SCnt" -> "[" \o SymToString(s.left) \o "]"
      [] s.symtype = "SAny" -> "var_" \o to_string(s.var_idx)
      [] s.symtype = "SEq" -> "(" \o SymToString(s.left) \o "==" \o SymToString(s.right) \o ")"
      [] s.symtype = "SNot" -> "!" \o SymToString(s.left)
      [] s.symtype = "SAnd" -> "(" \o SymToString(s.left) \o "&&" \o SymToString(s.right) \o ")"
      [] s.symtype = "SOr" -> "(" \o SymToString(s.left) \o "||" \o SymToString(s.right) \o ")"
      [] s.symtype = "SLt" -> "(" \o SymToString(s.left) \o "<" \o SymToString(s.right) \o ")"
      [] s.symtype = "SLe" -> "(" \o SymToString(s.left) \o "<=" \o SymToString(s.right) \o ")"
      [] OTHER -> ""


(***************************************************************************)
(* AST nodes (parser.h) and the code generator (compiler.h)                *)
(***************************************************************************)

NullNode == [kind |-> "null"]

\* new_num(val)
Num(v) == [kind |-> "ND_NUM", val |-> v]

\* primary(): identifier with offset = variable id
LVar(off) == [kind |-> "ND_LVAR", offset |-> off]

\* new_binary(kind, lhs, rhs)
Bin(k, l, r) == [kind |-> k, lhs |-> l, rhs |-> r]

Assign(l, r) == Bin("ND_ASSIGN", l, r)

\* a > b is parsed as ND_LT with the operands swapped (relational())
Gt(l, r) == Bin("ND_LT", r, l)

Return(e) == [kind |-> "ND_RETURN", lhs |-> e]

If(c, t, e) == [kind |-> "ND_IF", cond |-> c, then |-> t, els |-> e]

Block(bs) == [kind |-> "ND_BLOCK", blocks |-> bs]

\* Instr(InstrType instr): word stays uninitialised
Ins(i) == [instr |-> i, word |-> Undef]

\* Instr(InstrType instr, Word32 word)
InsW(i, w) == [instr |-> i, word |-> w]

BinInstr(k) == CASE k = "ND_ADD" -> <<Ins("Add")>>
                 [] k = "ND_SUB" -> <<Ins("Sub")>>
                 [] k = "ND_MUL" -> <<Ins("Mul")>>
                 [] k = "ND_EQ" -> <<Ins("Eq")>>
                 [] k = "ND_NE" -> <<Ins("Eq"), Ins("Not")>>
                 [] k = "ND_LT" -> <<Ins("Lt")>>
                 [] k = "ND_LE" -> <<Ins("Le")>>
                 [] k = "ND_AND" -> <<Ins("And")>>
                 [] OTHER -> <<Ins("Or")>>

gen_lval(node) == <<InsW("Push", node.offset)>>

\* a gen that compiles the expression of a return before the Done
RECURSIVE genReturnsValue(_)
RECURSIVE genBlocksReturnsValue(_)
genReturnsValue(node) ==
    CASE node.kind = "ND_RETURN" -> genReturnsValue(node.lhs) \o <<Ins("Done")>>
      [] node.kind = "ND_BLOCK" -> genBlocksReturnsValue(node.blocks)
      [] node.kind = "ND_IF" ->
            LET then_prg == genReturnsValue(node.then)
                els_prg == (IF node.els /= NullNode THEN genReturnsValue(node.els)
                            ELSE <<Ins("Nop")>>)
                           \o <<InsW("Push", 1 + Len(then_prg)), Ins("Jmp")>>
            IN  genReturnsValue(node.cond)
                \o <<InsW("Push", 3 + Len(els_prg)), Ins("Swap"), Ins("JmpIf")>>
                \o els_prg \o then_prg
      [] node.kind = "ND_NUM" -> <<InsW("Push", FloatToWord(node.val))>>
      [] node.kind = "ND_LVAR" -> gen_lval(node) \o <<Ins("Load")>>
      [] node.kind = "ND_ASSIGN" ->
            gen_lval(node.lhs) \o <<Ins("Load")>> \o genReturnsValue(node.rhs)
            \o <<Ins("Swap"), Ins("Store")>>
      [] OTHER -> genReturnsValue(node.lhs) \o genReturnsValue(node.rhs)
                  \o BinInstr(node.kind)

genBlocksReturnsValue(bs) ==
    IF bs = <<>> THEN <<>>
    ELSE genReturnsValue(Head(bs)) \o genBlocksReturnsValue(Tail(bs))

RECURSIVE gen(_)
RECURSIVE genBlocks(_)
gen(node) ==
    CASE node.kind = "ND_RETURN" -> <<Ins("Done")>>
      [] node.kind = "ND_BLOCK" -> genBlocks(node.blocks)
      [] node.kind = "ND_IF" ->
            LET then_prg == gen(node.then)
                els_prg == (IF node.els /= NullNode THEN gen(node.els)
                            ELSE <<Ins("Nop")>>)
                           \o <<InsW("Push", 1 + Len(then_prg)), Ins("Jmp")>>
            IN  gen(node.cond)
                \o <<InsW("Push", 3 + Len(els_prg)), Ins("Swap"), Ins("JmpIf")>>
                \o els_prg \o then_prg
      [] node.kind = "ND_NUM" -> <<InsW("Push", FloatToWord(node.val))>>
      [] node.kind = "ND_LVAR" -> gen_lval(node) \o <<Ins("Load")>>
      [] node.kind = "ND_ASSIGN" ->
            gen_lval(node.lhs) \o <<Ins("Load")>> \o gen(node.rhs)
            \o <<Ins("Swap"), Ins("Store")>>
      [] OTHER -> gen(node.lhs) \o gen(node.rhs) \o BinInstr(node.kind)

genBlocks(bs) == IF bs = <<>> THEN <<>> ELSE gen(Head(bs)) \o genBlocks(Tail(bs))

\* compile_ast emitting nothing for the nullptr that ends the statement list
RECURSIVE compile_astNoDone(_)
compile_astNoDone(code) ==
    IF code = <<>> THEN <<>>
    ELSE (IF Head(code) /= NullNode THEN gen(Head(code)) ELSE <<>>)
         \o compile_astNoDone(Tail(code))

\* compile_ast over the statement list that generate_ast ends with nullptr
RECURSIVE compile_ast(_)
compile_ast(code) ==
    IF code = <<>> THEN <<>>
    ELSE (IF Head(code) /= NullNode THEN gen(Head(code)) ELSE <<Ins("Done")>>)
         \o compile_ast(Tail(code))

(***************************************************************************)
(* Linkedlist<Sym> (utils.h): nodes live in a heap, NULL is 0              *)
(***************************************************************************)

NULL == 0

\* Linkedlist(): ghost(NULL), head(NULL), tail(NULL)
EmptyList == [ghost |-> NULL, head |-> NULL, tail |-> NULL]

\* Linkedlist::push(data) on list l in heap h
LLpush(h, l, data) ==
    LET newNode == Len(h) + 1
        h1 == Append(h, [data |-> data, next |-> NULL, prev |-> NULL])
    IN  IF l.head = NULL
        THEN [heap |-> h1, list |-> [l EXCEPT !.head = newNode, !.tail = newNode]]
        ELSE [heap |-> [h1 EXCEPT ![l.tail].next = newNode, ![newNode].prev = l.tail],
              list |-> [l EXCEPT !.tail = newNode]]

\* Linkedlist::back(): &(tail->data); a NULL tail has no data to point to
LLback(h, l) == IF l.tail = NULL THEN NoSym ELSE h[l.tail].data

\* pop that leaves tail where it is when the list keeps elements
LLpopKeepsTail(h, l) ==
    IF l.tail = NULL THEN [heap |-> h, list |-> l]
    ELSE LET current_tail == l.tail
             tail == IF current_tail = l.head THEN NULL ELSE current_tail
             head == IF current_tail = l.head THEN NULL ELSE l.head
         IN  [heap |-> h, list |-> [ghost |-> l.ghost, head |-> head, tail |-> tail]]

\* Linkedlist::pop()
LLpop(h, l) ==
    IF l.tail = NULL THEN [heap |-> h, list |-> l]
    ELSE LET current_tail == l.tail
             tail == h[current_tail].prev
             h1 == IF tail /= NULL THEN [h EXCEPT ![tail].next = NULL] ELSE h
             head == IF current_tail = l.head THEN NULL ELSE l.head
         IN  IF l.ghost = NULL
             THEN [heap |-> h1,
                   list |-> [ghost |-> current_tail, head |-> head, tail |-> tail]]
             ELSE [heap |-> [h1 EXCEPT ![l.ghost].next = current_tail,
                                       ![current_tail].prev = l.ghost],
                   list |-> [ghost |-> tail, head |-> head, tail |-> tail]]

\* Linkedlist::len(), walking next pointers from head (at most fuel nodes)
RECURSIVE LLwalk(_, _, _)
LLwalk(h, n, fuel) == IF n = NULL \/ fuel = 0 THEN 0 ELSE 1 + LLwalk(h, h[n].next, fuel - 1)

LLlen(h, l) == LLwalk(h, l.head, Len(h) + 1)


(***************************************************************************)
(* Boolean layer (sat.h, namespace gymbosat)                               *)
(*                                                                         *)
(* Expr::name is the base-class member; class Var declares its own name    *)
(* (vname here) that hides it, so Expr::name of a Var is the empty string, *)
(* and Const only sets a local variable called name.                       *)
(***************************************************************************)

Var(n) == [opcode |-> "VAR", name |-> "", vname |-> n]

And(l, r) == [opcode |-> "AND", name |-> "And", left |-> l, right |-> r]

Or(l, r) == [opcode |-> "OR", name |-> "Or", left |-> l, right |-> r]

Not(e) == [opcode |-> "NOT", name |-> "Not", expr |-> e]

Const(b) == [opcode |-> "CONST", name |-> "", value |-> b]

\* Expr::to_string()
RECURSIVE ExprToString(_)
ExprToString(e) ==
    CASE e.opcode = "VAR" -> e.vname
      [] e.opcode = "AND" -> "(" \o ExprToString(e.left) \o " && " \o ExprToString(e.right) \o ")"
      [] e.opcode = "OR" -> "(" \o ExprToString(e.left) \o " || " \o ExprToString(e.right) \o ")"
      [] e.opcode = "NOT" -> "(!(" \o ExprToString(e.expr) \o "))"
      [] OTHER -> IF e.value THEN "True" ELSE "False"

\* Expr::freeVar(): <<found, name>>
RECURSIVE freeVar(_)
freeVar(e) ==
    CASE e.opcode = "VAR" -> <<TRUE, e.vname>>
      [] e.opcode \in {"AND", "OR"} ->
            LET leftVar == freeVar(e.left)
            IN  IF leftVar[1] THEN leftVar ELSE freeVar(e.right)
      [] e.opcode = "NOT" -> freeVar(e.expr)
      [] OTHER -> <<FALSE, "">>

\* Expr::unConst()
unConst(e) == IF e.opcode = "CONST" THEN e.value ELSE FALSE

\* Expr::getLeft() / getRight()
getLeft(e) == e.left

getRight(e) == e.right

\* Expr::guessVar(var, val)
RECURSIVE guessVar(_, _, _)
guessVar(e, var, val) ==
    CASE e.opcode = "VAR" -> IF e.vname = var THEN Const(val) ELSE Var(e.vname)
      [] e.opcode = "AND" -> And(guessVar(e.left, var, val), guessVar(e.right, var, val))
      [] e.opcode = "OR" -> Or(guessVar(e.left, var, val), guessVar(e.right, var, val))
      [] e.opcode = "NOT" -> Not(guessVar(e.expr, var, val))
      [] OTHER -> Const(e.value)

\* Expr::simplify()
RECURSIVE simplify(_)
simplify(e) ==
    CASE e.opcode = "AND" ->
            LET simplifiedLeft == simplify(e.left)
                simplifiedRight == simplify(e.right)
                ls == ExprToString(simplifiedLeft)
                rs == ExprToString(simplifiedRight)
            IN  IF ls = "True" /\ rs = "True" THEN Const(TRUE)
                ELSE IF ls = "False" \/ rs = "False" THEN Const(FALSE)
                ELSE IF ls = "True" THEN simplifiedRight
                ELSE IF rs = "True" THEN simplifiedLeft
                ELSE And(simplifiedLeft, simplifiedRight)
      [] e.opcode = "OR" ->
            LET simplifiedLeft == simplify(e.left)
                simplifiedRight == simplify(e.right)
                ls == ExprToString(simplifiedLeft)
                rs == ExprToString(simplifiedRight)
            IN  IF ls = "False" /\ rs = "False" THEN Const(FALSE)
                ELSE IF ls = "True" \/ rs = "True" THEN Const(TRUE)
                ELSE IF ls = "False" THEN simplifiedRight
                ELSE IF rs = "False" THEN simplifiedLeft
                ELSE Or(simplifiedLeft, simplifiedRight)
      [] e.opcode = "NOT" ->
            LET simplifiedExpr == simplify(e.expr)
                es == ExprToString(simplifiedExpr)
            IN  IF es = "True" THEN Const(FALSE)
                ELSE IF es = "False" THEN Const(TRUE)
                ELSE Not(simplifiedExpr)
      [] OTHER -> e

\* Expr::fixNegations(); the NOT case is Not::fixNegations
RECURSIVE fixNegations(_)
fixNegations(e) ==
    CASE e.opcode = "AND" -> And(fixNegations(e.left), fixNegations(e.right))
      [] e.opcode = "OR" -> Or(fixNegations(e.left), fixNegations(e.right))
      [] e.opcode = "NOT" ->
            IF ExprToString(e.expr) = "True" THEN Const(FALSE)
            ELSE IF ExprToString(e.expr) = "False" THEN Const(TRUE)
            ELSE IF e.expr.opcode = "VAR" THEN Not(fixNegations(e.expr))
            ELSE IF e.expr.opcode = "NOT" THEN fixNegations(e.expr)
            ELSE IF e.expr.opcode = "AND"
                 THEN Or(fixNegations(Not(getLeft(e.expr))),
                         fixNegations(Not(getRight(e.expr))))
            ELSE IF e.expr.opcode = "OR"
                 THEN And(fixNegations(Not(getLeft(e.expr))),
                          fixNegations(Not(getRight(e.expr))))
            ELSE Not(fixNegations(e.expr))
      [] OTHER -> e

\* distribute without the case of a conjunction on the left of Or
RECURSIVE distributeRightOnly(_)
distributeRightOnly(e) ==
    CASE e.opcode = "AND" -> And(distributeRightOnly(e.left), distributeRightOnly(e.right))
      [] e.opcode = "OR" ->
            IF e.right.opcode = "AND"
            THEN And(Or(distributeRightOnly(e.left), distributeRightOnly(getLeft(e.right))),
                     Or(distributeRightOnly(e.left), distributeRightOnly(getRight(e.right))))
            ELSE Or(distributeRightOnly(e.left), distributeRightOnly(e.right))
      [] e.opcode = "NOT" -> Not(distributeRightOnly(e.expr))
      [] OTHER -> e

\* Expr::distribute()
RECURSIVE distribute(_)
distribute(e) ==
    CASE e.opcode = "AND" -> And(distribute(e.left), distribute(e.right))
      [] e.opcode = "OR" ->
            IF e.right.opcode = "AND"
            THEN And(Or(distribute(e.left), distribute(getLeft(e.right))),
                     Or(distribute(e.left), distribute(getRight(e.right))))
            ELSE IF e.left.opcode = "AND"
            THEN And(Or(distribute(e.right), distribute(getLeft(e.left))),
                     Or(distribute(e.right), distribute(getRight(e.left))))
            ELSE Or(distribute(e.left), distribute(e.right))
      [] e.opcode = "NOT" -> Not(distribute(e.expr))
      [] OTHER -> e

\* cnf(expr): fix-point of distribute after fixNegations
RECURSIVE cnf(_)
cnf(e) ==
    LET new_expr == distribute(fixNegations(e))
    IN  IF ExprToString(e) = ExprToString(new_expr) THEN e ELSE cnf(new_expr)

\* Expr::literals()
RECURSIVE literals(_)
literals(e) ==
    CASE e.opcode = "VAR" -> {e.vname}
      [] e.opcode \in {"AND", "OR"} -> literals(e.left) \cup literals(e.right)
      [] e.opcode = "NOT" -> literals(e.expr)
      [] OTHER -> {}

\* Expr::clauses()
RECURSIVE clauses(_)
clauses(e) ==
    IF e.opcode = "AND" THEN clauses(e.left) \o clauses(e.right) ELSE <<e>>

\* Expr::unitClause(): Not reads expr->name, the base-class member
unitClause(e) ==
    CASE e.opcode = "VAR" -> <<e.vname, TRUE>>
      [] e.opcode = "NOT" ->
            IF e.expr.opcode = "VAR" THEN <<e.expr.name, FALSE>> ELSE <<"", FALSE>>
      [] OTHER -> <<"", FALSE>>

\* allUnitClauses(expr)
RECURSIVE UnitClausesOf(_)
UnitClausesOf(exprs) ==
    IF exprs = <<>> THEN <<>>
    ELSE LET uc == unitClause(Head(exprs))
         IN  (IF uc[1] /= "" THEN <<uc>> ELSE <<>>) \o UnitClausesOf(Tail(exprs))

allUnitClauses(e) == UnitClausesOf(clauses(e))

\* the loop shared by unitPropagation and literalElimination:
\* guess each assignment in turn and record it in assignments_map
RECURSIVE ApplyAssignments(_, _, _)
ApplyAssignments(e, assignments, assignments_map) ==
    IF assignments = <<>> THEN [expr |-> e, map |-> assignments_map]
    ELSE LET var == Head(assignments)[1]
             value == Head(assignments)[2]
         IN  ApplyAssignments(guessVar(e, var, value), Tail(assignments),
                              MapPut(assignments_map, var, value))

\* unitPropagation(expr, assignments_map)
unitPropagation(e, assignments_map) ==
    ApplyAssignments(e, allUnitClauses(e), assignments_map)

\* satisfiableDPLL(expr, assignments_map): the result and the caller's map
RECURSIVE satisfiableDPLL(_, _)
satisfiableDPLL(e, assignments_map) ==
    With(unitPropagation(e, assignments_map), LAMBDA up :
    With(cnf(up.expr), LAMBDA expr2 :
    With(freeVar(expr2), LAMBDA freevar :
        IF ~freevar[1]
        THEN [sat |-> unConst(simplify(expr2)), map |-> up.map]
        ELSE With(satisfiableDPLL(simplify(guessVar(expr2, freevar[2], TRUE)),
                                  MapPut(up.map, freevar[2], TRUE)), LAMBDA t :
                  IF t.sat THEN [sat |-> TRUE, map |-> t.map]
                  ELSE With(satisfiableDPLL(simplify(guessVar(expr2, freevar[2], FALSE)),
                                            MapPut(up.map, freevar[2], FALSE)), LAMBDA f :
                            IF f.sat THEN [sat |-> TRUE, map |-> f.map]
                            ELSE [sat |-> FALSE, map |-> up.map])))))


(***************************************************************************)
(* Gradient descent optimizer (gd.h)                                       *)
(***************************************************************************)

\* GDOptimizer configuration, as the executors are constructed in
\* test_workflow.cpp
num_epochs == 100

lr == 1

eps == 1

param_low == -10

param_high == 10

sign_grad == TRUE

InitialSeed == 42

max_num_trials == 10

ignore_memory == FALSE

\* idist(gen) for std::mt19937 gen(seed): row seed - InitialSeed + 1 holds the
\* first draws of std::uniform_int_distribution<>(param_low, param_high)
\* (libstdc++), one row per seed
MTDraws ==
    << <<-3, 6, 9, -7>>, <<-8, 0, 2, -8>>, <<7, -1, -8, -10>>, <<10, -4, 1, 4>>,
       <<6, -5, 3, 4>>, <<-8, 7, 10, 9>>, <<-10, -2, 8, -5>>, <<-4, -1, -5, 5>>,
       <<0, -8, -6, -9>>, <<4, -4, -10, 0>>, <<7, 7, -10, -7>>, <<7, 4, 1, 7>>,
       <<-2, -6, -3, -10>>, <<-9, 4, 10, 10>>, <<10, -8, -3, 7>>, <<-9, 2, -6, 3>>,
       <<-3, 7, -1, 8>>, <<9, 6, -7, 3>>, <<-4, 6, -7, 5>>, <<7, 8, -7, -9>>,
       <<-10, 1, 0, -1>>, <<1, 0, -2, -10>>, <<-3, 6, 1, 1>>, <<-6, 8, -10, 3>>,
       <<-7, -6, -8, -5>>, <<1, 5, 8, 9>>, <<-5, -2, -10, 6>>, <<-4, -2, 6, 2>>,
       <<9, 3, 8, -9>>, <<-7, 5, -2, -8>>, <<-8, 10, 4, -2>>, <<3, -4, 1, 2>>,
       <<-6, -2, 6, 9>>, <<1, 4, -9, 5>>, <<-4, 0, 7, -10>>, <<9, -10, 3, -3>>,
       <<-9, 8, 4, 2>>, <<0, -2, -1, -1>>, <<0, 4, 4, 1>>, <<-3, 0, -3, 7>>,
       <<-5, -9, 3, -2>>, <<-5, 1, 4, 7>>, <<-10, 1, -3, 0>>, <<3, 8, 0, 1>>,
       <<-6, 10, -6, 9>>, <<3, 9, 10, -5>>, <<3, 2, 0, 9>>, <<0, -2, -5, 4>>,
       <<-7, 7, -7, -7>>, <<-6, 10, -4, 0>>, <<8, 9, 6, -5>>, <<2, 2, 3, 8>>,
       <<5, 6, 2, 2>>, <<-6, -5, -6, 2>>, <<-6, -1, 9, 8>>, <<7, 7, 10, 4>>,
       <<5, -4, 1, -10>>, <<4, 5, 0, 7>>, <<1, 4, -5, -2>>, <<0, 1, 1, 10>>,
       <<2, -2, 4, -1>>, <<-1, -5, -7, 6>>, <<-7, -8, -6, 6>>, <<-9, -4, -3, 7>>,
       <<-10, 4, 10, 0>>, <<-7, 10, 5, 1>>, <<-6, 9, -10, 0>>, <<2, 3, 0, 0>>,
       <<-8, 7, 3, -4>>, <<2, -8, -7, -4>>, <<-3, 4, 3, -4>>, <<7, -8, -9, -8>>,
       <<-7, -8, 8, 6>>, <<-6, -4, 4, -3>>, <<-3, 2, -3, 10>>, <<-1, 6, -4, -10>>,
       <<9, -8, 2, -6>>, <<7, -7, 0, 9>>, <<4, -3, 0, 10>>, <<-8, 6, -6, 10>>,
       <<-7, 6, 4, 0>>, <<4, 4, -4, -2>>, <<-8, 4, 5, 10>>, <<0, 10, -9, -6>>,
       <<-8, 10, -8, -6>>, <<1, -9, -10, 2>>, <<8, 8, -5, 7>>, <<1, 0, -5, 3>>,
       <<-8, 9, -4, -4>>, <<3, 6, 9, -8>>, <<6, -9, -2, -1>>, <<-2, -3, -8, 9>>,
       <<7, -6, -1, 3>>, <<3, -8, -4, -7>>, <<-7, 9, -7, -4>>, <<9, 0, -9, -4>>,
       <<5, 6, 4, -5>>, <<0, -7, 5, -7>>, <<5, -7, -8, 9>>, <<9, -3, 0, -5>>,
       <<8, -3, 1, -8>>, <<5, 6, -3, 9>>, <<-9, -2, 8, -10>>, <<-5, -7, -10, -9>>,
       <<0, 4, 2, 5>>, <<-3, -6, 3, 9>>, <<2, -7, -8, 3>>, <<8, -7, 10, 5>>,
       <<9, 9, -5, 2>>, <<6, -7, -7, 10>>, <<9, -4, 5, -3>>, <<-7, 4, 1, -7>>,
       <<0, 3, 3, 9>>, <<3, -3, 9, 1>>, <<-4, 8, 1, -2>>, <<6, -2, 2, 2>>,
       <<-8, -6, -7, 6>>, <<6, -6, -6, -5>>, <<7, 0, -4, 6>>, <<9, -7, -3, -10>> >>

idist(seed, k) == MTDraws[seed - InitialSeed + 1][k]

\* the members of a set in the order of a sequence that lists them
RECURSIVE InOrder(_, _)
InOrder(order, S) ==
    IF order = <<>> THEN <<>>
    ELSE (IF Head(order) \in S THEN <<Head(order)>> ELSE <<>>) \o InOrder(Tail(order), S)

RECURSIVE UnionVarIds(_)
UnionVarIds(pcs) ==
    IF pcs = <<>> THEN {} ELSE gather_var_ids(Head(pcs)) \cup UnionVarIds(Tail(pcs))

\* GDOptimizer::eval(path_constraints, params)
\* eval accepting a constraint that misses by up to eps
GDevalLoose(path_constraints, params) ==
    \A i \in 1..Len(path_constraints) : eval(path_constraints[i], params, eps) <= eps

\* eval rejecting a constraint that is met with equality
GDevalStrict(path_constraints, params) ==
    \A i \in 1..Len(path_constraints) : eval(path_constraints[i], params, eps) < 0

GDeval(path_constraints, params) ==
    \A i \in 1..Len(path_constraints) : eval(path_constraints[i], params, eps) <= 0

\* params.emplace(i, idist(gen)) for the variables missing from params,
\* in the iteration order of unique_var_ids
RECURSIVE DrawParams(_, _, _, _)
DrawParams(ids, params, seed, k) ==
    IF ids = <<>> THEN params
    ELSE IF Head(ids) \in DOMAIN params
         THEN DrawParams(Tail(ids), params, seed, k)
         ELSE DrawParams(Tail(ids), MapPut(params, Head(ids), idist(seed, k)), seed, k + 1)

\* the gradient accumulated over the violated constraints
RECURSIVE SumGrads(_, _)
SumGrads(pcs, params) ==
    IF pcs = <<>> THEN EmptyMap
    ELSE LET rest == SumGrads(Tail(pcs), params)
         IN  IF eval(Head(pcs), params, eps) > 0
             THEN GradAdd(grad(Head(pcs), params, eps), rest)
             ELSE rest

Sign(g) == IF g > 0 THEN 1 ELSE IF g < 0 THEN -1 ELSE 0

\* an update that moves the constant variables as well
GDupdateMovesConst(params, grads, is_const) ==
    LET updated == [x \in DOMAIN params |->
                       IF x \in DOMAIN grads
                       THEN (IF ~sign_grad THEN params[x] - lr * grads[x]
                             ELSE params[x] - lr * Sign(grads[x]))
                       ELSE params[x]]
    IN  IF updated = EmptyMap THEN EmptyMap ELSE updated

\* one parameter update of the while loop in GDOptimizer::solve
GDupdate(params, grads, is_const) ==
    LET updated == [x \in DOMAIN params |->
                       IF x \in DOMAIN grads /\ ~is_const[x]
                       THEN (IF ~sign_grad THEN params[x] - lr * grads[x]
                             ELSE params[x] - lr * Sign(grads[x]))
                       ELSE params[x]]
    IN  IF updated = EmptyMap THEN EmptyMap ELSE updated

\* a pass that evaluates is_sat and then applies the update once more
GDepochExtraStep(pcs, is_const, s) ==
    IF ~((~s.is_sat) /\ (~s.is_converge) /\ s.itr < num_epochs) THEN s
    ELSE With(SumGrads(pcs, s.params), LAMBDA grads :
         With(GDupdate(s.params, grads, is_const), LAMBDA params1 :
              [is_sat |-> GDeval(pcs, params1),
               is_converge |-> \A x \in DOMAIN grads : is_const[x] \/ grads[x] = 0,
               itr |-> s.itr + 1, params |-> GDupdate(params1, grads, is_const)]))

\* one pass of the while loop of GDOptimizer::solve, or no change once its
\* condition fails; s holds the loop's is_sat, is_converge, itr and params
GDepoch(pcs, is_const, s) ==
    IF ~((~s.is_sat) /\ (~s.is_converge) /\ s.itr < num_epochs) THEN s
    ELSE With(SumGrads(pcs, s.params), LAMBDA grads :
         With(GDupdate(s.params, grads, is_const), LAMBDA params1 :
              [is_sat |-> GDeval(pcs, params1),
               is_converge |-> \A x \in DOMAIN grads : is_const[x] \/ grads[x] = 0,
               itr |-> s.itr + 1, params |-> params1]))

\* the loop written as do-while: the first pass runs whatever is_sat says
RECURSIVE GDloopDoWhile(_, _, _, _)
GDloopDoWhile(pcs, is_const, n, s) ==
    IF n = 0 THEN s
    ELSE With(SumGrads(pcs, s.params), LAMBDA grads :
         With(GDupdate(s.params, grads, is_const), LAMBDA params1 :
         With([is_sat |-> GDeval(pcs, params1),
               is_converge |-> \A x \in DOMAIN grads : is_const[x] \/ grads[x] = 0,
               itr |-> s.itr + 1, params |-> params1], LAMBDA s1 :
              IF s1.is_sat \/ s1.is_converge THEN s1
              ELSE GDloopDoWhile(pcs, is_const, n - 1, s1))))

\* the while loop of GDOptimizer::solve run for at most n passes
RECURSIVE GDloop(_, _, _, _)
GDloop(pcs, is_const, n, s) ==
    IF n = 0 \/ s.is_sat \/ s.is_converge THEN s
    ELSE IF n = 1 THEN GDepoch(pcs, is_const, s)
    ELSE GDloop(pcs, is_const, n - (n \div 2), GDloop(pcs, is_const, n \div 2, s))

\* GDOptimizer::solve(path_constraints, params) with is_init_params_const = true;
\* order is the iteration order of the unordered_set unique_var_ids
GDsolve(path_constraints, params, seed, order) ==
    IF Len(path_constraints) = 0
    THEN [is_sat |-> TRUE, params |-> params, itr |-> 0]
    ELSE With(UnionVarIds(path_constraints), LAMBDA unique_var_ids :
         With(DrawParams(InOrder(order, unique_var_ids), params, seed, 1), LAMBDA params1 :
         With(GDloop(path_constraints, [i \in unique_var_ids |-> i \in DOMAIN params],
                     num_epochs,
                     [is_sat |-> GDeval(path_constraints, params1),
                      is_converge |-> FALSE, itr |-> 0, params |-> params1]), LAMBDA r :
              [is_sat |-> r.is_sat, params |-> r.params, itr |-> r.itr])))

(***************************************************************************)
(* SMT orchestration (smt.h)                                               *)
(***************************************************************************)

\* initialize_params(params, state, ignore_memory)
initialize_params(mem) ==
    IF ~ignore_memory THEN [a \in DOMAIN mem |-> wordToFloat(mem[a])] ELSE EmptyMap

\* a retry loop that keeps the seed of the failed call
RECURSIVE TrialsSameSeed(_, _, _, _, _, _, _, _)
TrialsSameSeed(constraints, mem, params, seed, order, j, is_sat, used) ==
    IF j >= max_num_trials
    THEN [is_sat |-> is_sat, params |-> params, seed |-> seed, used |-> used]
    ELSE With(GDsolve(constraints, params, seed, order), LAMBDA r :
              IF r.is_sat
              THEN [is_sat |-> TRUE, params |-> r.params, seed |-> seed,
                    used |-> used + r.itr]
              ELSE TrialsSameSeed(constraints, mem, initialize_params(mem), seed, order,
                                  j + 1, FALSE, used + r.itr))

\* the retry loop: for (j = 0; j < max_num_trials; j++) ...
RECURSIVE Trials(_, _, _, _, _, _, _, _)
Trials(constraints, mem, params, seed, order, j, is_sat, used) ==
    IF j >= max_num_trials
    THEN [is_sat |-> is_sat, params |-> params, seed |-> seed, used |-> used]
    ELSE With(GDsolve(constraints, params, seed, order), LAMBDA r :
              IF r.is_sat
              THEN [is_sat |-> TRUE, params |-> r.params, seed |-> seed,
                    used |-> used + r.itr]
              ELSE Trials(constraints, mem, initialize_params(mem), seed + 1, order,
                          j + 1, FALSE, used + r.itr))

\* smt_union_solver(is_sat, state, params, optimizer, ...)
smt_union_solver(is_sat, path_constraints, mem, params, seed, order) ==
    Trials(path_constraints, mem, params, seed, order, 0, is_sat, 0)

\* sym2expr(sym, unique_sym_map): the Boolean skeleton of a Sym
RECURSIVE sym2expr(_)
sym2expr(sym) ==
    CASE sym.symtype = "SAnd" -> And(sym2expr(sym.left), sym2expr(sym.right))
      [] sym.symtype = "SNot" -> Not(sym2expr(sym.left))
      [] sym.symtype = "SOr" -> Or(sym2expr(sym.left), sym2expr(sym.right))
      [] OTHER -> Var(SymToString(sym))

\* the atoms that sym2expr enters into unique_sym_map
RECURSIVE AtomsOf(_)
AtomsOf(sym) ==
    CASE sym.symtype \in {"SAnd", "SOr"} -> AtomsOf(sym.left) \cup AtomsOf(sym.right)
      [] sym.symtype = "SNot" -> AtomsOf(sym.left)
      [] OTHER -> {sym}

\* pathconstraints2expr(constraints, unique_sym_map)
RECURSIVE AndAll(_, _)
AndAll(res, constraints) ==
    IF constraints = <<>> THEN res
    ELSE AndAll(And(res, sym2expr(Head(constraints))), Tail(constraints))

pathconstraints2expr(constraints) ==
    IF Len(constraints) = 0 THEN Const(TRUE)
    ELSE AndAll(sym2expr(Head(constraints)), Tail(constraints))

\* unique_terms_map: name -> Sym (insert keeps the first Sym of a name)
unique_terms_map(constraints) ==
    LET atoms == UNION {AtomsOf(constraints[i]) : i \in 1..Len(constraints)}
    IN  [n \in {SymToString(a) : a \in atoms} |->
            CHOOSE a \in atoms : SymToString(a) = n]

\* the entries of a map as a sequence (one iteration order of the map)
RECURSIVE KeySeq(_)
KeySeq(S) == IF S = {} THEN <<>>
             ELSE LET k == CHOOSE k \in S : TRUE IN <<k>> \o KeySeq(S \ {k})

\* new_constraints of one DPLL round
RECURSIVE NewConstraints(_, _, _)
NewConstraints(keys, assignments_map, terms) ==
    IF keys = <<>> THEN <<>>
    ELSE <<IF assignments_map[Head(keys)] THEN terms[Head(keys)]
           ELSE SymUn("SNot", terms[Head(keys)])>>
         \o NewConstraints(Tail(keys), assignments_map, terms)

\* learnt_constraints: the clause that blocks the failed assignment
RECURSIVE Learnt(_, _, _)
Learnt(acc, keys, assignments_map) ==
    IF keys = <<>> THEN acc
    ELSE Learnt(Or(acc, IF assignments_map[Head(keys)] THEN Not(Var(Head(keys)))
                        ELSE Var(Head(keys))),
                Tail(keys), assignments_map)

\* the while loop with the blocking clause added one round late: an assignment
\* that failed is excluded only once DPLL has returned it again
RECURSIVE DpllRoundsBlocksLate(_, _, _, _, _, _, _, _, _)
DpllRoundsBlocksLate(expr, assignments_map, terms, mem, params, seed, order, is_sat, used) ==
    With(satisfiableDPLL(expr, assignments_map), LAMBDA d :
        IF ~d.sat
        THEN [is_sat |-> is_sat, params |-> params, seed |-> seed, used |-> used,
              rounds |-> <<>>]
        ELSE With(KeySeq(DOMAIN d.map), LAMBDA keys :
             With(Trials(NewConstraints(keys, d.map, terms), mem, params, seed, order,
                         0, is_sat, 0), LAMBDA r :
                  IF r.is_sat
                  THEN [is_sat |-> TRUE, params |-> r.params, seed |-> r.seed,
                        used |-> used + r.used, rounds |-> <<d.map>>]
                  ELSE With(DpllRoundsBlocksLate(
                                IF d.map = assignments_map
                                THEN And(expr, Learnt(Const(FALSE), keys, d.map))
                                ELSE expr,
                                d.map, terms, mem, r.params, r.seed, order,
                                r.is_sat, used + r.used), LAMBDA n :
                            [n EXCEPT !.rounds = <<d.map>> \o @]))))

\* the while loop of smt_dpll_solver; assignments_map persists across rounds.
\* rounds is a history of the assignments_map of each pass of the loop (not a
\* value of the program)
RECURSIVE DpllRounds(_, _, _, _, _, _, _, _, _)
DpllRounds(expr, assignments_map, terms, mem, params, seed, order, is_sat, used) ==
    With(satisfiableDPLL(expr, assignments_map), LAMBDA d :
        IF ~d.sat
        THEN [is_sat |-> is_sat, params |-> params, seed |-> seed, used |-> used,
              rounds |-> <<>>]
        ELSE With(KeySeq(DOMAIN d.map), LAMBDA keys :
             With(Trials(NewConstraints(keys, d.map, terms), mem, params, seed, order,
                         0, is_sat, 0), LAMBDA r :
                  IF r.is_sat
                  THEN [is_sat |-> TRUE, params |-> r.params, seed |-> r.seed,
                        used |-> used + r.used, rounds |-> <<d.map>>]
                  ELSE With(DpllRounds(And(expr, Learnt(Const(FALSE), keys, d.map)),
                                       d.map, terms, mem, r.params, r.seed, order,
                                       r.is_sat, used + r.used), LAMBDA n :
                            [n EXCEPT !.rounds = <<d.map>> \o @]))))

\* smt_dpll_solver(is_sat, state, params, optimizer, ...)
smt_dpll_solver(is_sat, path_constraints, mem, params, seed, order) ==
    DpllRounds(pathconstraints2expr(path_constraints), EmptyMap,
               unique_terms_map(path_constraints), mem, params, seed, order, is_sat, 0)

\* call_smt_solver(is_sat, state, params, optimizer, ..., use_dpll)
call_smt_solver(is_sat, path_constraints, mem, params, seed, order, dpll) ==
    IF dpll THEN smt_dpll_solver(is_sat, path_constraints, mem, params, seed, order)
    ELSE smt_union_solver(is_sat, path_constraints, mem, params, seed, order)


(***************************************************************************)
(* SymState and symStep (type.h, symbolic.h)                               *)
(***************************************************************************)

\* largest small value an uninitialised field is taken to read as
MaxGarbage == 2

\* a value that is no variable id and no valid jump
WildGarbage == 1000003

GarbageVals == (0..MaxGarbage) \cup {WildGarbage}

\* the value read from an int field: what was stored, or, for a field no
\* constructor has set, the arbitrary value g
ReadField(f, g) == IF f = Undef THEN g ELSE f

\* SymProb(): numerator and denominator are the constant 1.0
SymProbOne == [numerator |-> SymCon(FloatToWord(1)), denominator |-> SymCon(FloatToWord(1))]

\* SymState(): pc(0), var_cnt(0), p(SymProb()), has_observed_p_cond(false);
\* branches is a history of the JmpIf outcomes taken to reach the state and
\* steps a history of the number of symStep calls of run that led to it
\* (not fields of the program)
InitSymState(mem) ==
    [pc |-> 0, var_cnt |-> 0, mem |-> mem, smem |-> EmptyMap,
     symbolic_stack |-> EmptyList, path_constraints |-> <<>>,
     p |-> SymProbOne, has_observed_p_cond |-> FALSE, branches |-> <<>>,
     steps |-> 0]

\* x = symbolic_stack.back(); symbolic_stack.pop();
PopBack(h, st) ==
    LET r == LLpop(h, st.symbolic_stack)
    IN  [x |-> LLback(h, st.symbolic_stack), heap |-> r.heap,
         state |-> [st EXCEPT !.symbolic_stack = r.list]]

\* symbolic_stack.push(data)
PushSym(h, st, data) ==
    LET r == LLpush(h, st.symbolic_stack, data)
    IN  [heap |-> r.heap, state |-> [st EXCEPT !.symbolic_stack = r.list]]

IncPc(st) == [st EXCEPT !.pc = st.pc + 1]

SymBinType(i) == CASE i = "Add" -> "SAdd" [] i = "Sub" -> "SSub" [] i = "Mul" -> "SMul"
                   [] i = "And" -> "SAnd" [] i = "Or" -> "SOr" [] i = "Lt" -> "SLt"
                   [] i = "Le" -> "SLe" [] OTHER -> "SEq"

\* case InstrType::Store of symStep; g1, g2 are what uninitialised
\* addr->var_idx and w->var_idx read as
StoreMem(st, addr, w, g1, g2) ==
    LET a == wordToInt(ReadField(addr.var_idx, g1))
        wv == wordToInt(ReadField(w.var_idx, g2))
    IN  IF w.symtype = "SCon"
        THEN [st EXCEPT !.mem = MapPut(st.mem, a, w.word)]
        ELSE IF w.symtype = "SAny" /\ wv \in DOMAIN st.mem
        THEN [st EXCEPT !.mem = MapPut(st.mem, a, st.mem[wv])]
        ELSE IF wv \notin DOMAIN st.smem
        THEN [st EXCEPT !.smem = MapPut(st.smem, a, w)]
        ELSE [st EXCEPT !.smem = MapPut(st.smem, a, st.smem[wv])]

\* a copy that leaves smem behind
StateCopyWithoutSmem(st) == [st EXCEPT !.smem = EmptyMap]

\* SymState::copy(): the maps and the constraint vector are copied, the
\* Linkedlist is copied as its three pointers
StateCopy(st) == st

\* true_state->pc += wordToInt(addr->word) of case InstrType::JmpIf
JmpIfTargetNoAdjust(st, addr) == st.pc + wordToInt(addr.word)

\* true_state->pc += wordToInt(addr->word - 2) of case InstrType::JmpIf
JmpIfTarget(st, addr) == st.pc + wordToInt(addr.word - 2)

\* symStep(state, instr, result): the heap, the state as symStep leaves it,
\* and the result vector; "self" in result stands for the state pointer itself
symStep(h, st, instr, g1, g2) ==
    LET i == instr.instr IN
    CASE i = "Not" ->
            LET w == PopBack(h, st)
                q == PushSym(w.heap, IncPc(w.state), SymUn("SNot", w.x))
            IN  [heap |-> q.heap, state |-> q.state, result |-> <<"self">>, forks |-> <<>>]
      [] i \in {"Add", "Sub", "Mul", "And", "Or", "Lt", "Le", "Eq"} ->
            LET r == PopBack(h, st)
                l == PopBack(r.heap, r.state)
                q == PushSym(l.heap, IncPc(l.state), SymBin(SymBinType(i), l.x, r.x))
            IN  [heap |-> q.heap, state |-> q.state, result |-> <<"self">>, forks |-> <<>>]
      [] i = "Swap" ->
            LET x == PopBack(h, st)
                y == PopBack(x.heap, x.state)
                q1 == PushSym(y.heap, IncPc(y.state), x.x)
                q2 == PushSym(q1.heap, q1.state, y.x)
            IN  [heap |-> q2.heap, state |-> q2.state, result |-> <<"self">>, forks |-> <<>>]
      [] i = "Store" ->
            LET addr == PopBack(h, st)
                w == PopBack(addr.heap, addr.state)
            IN  [heap |-> w.heap, state |-> IncPc(StoreMem(w.state, addr.x, w.x, g1, g2)),
                 result |-> <<"self">>, forks |-> <<>>]
      [] i = "Load" ->
            LET addr == PopBack(h, st)
                a == ReadField(addr.x.word, g1)
                q == IF wordToInt(a) \in DOMAIN addr.state.smem
                     THEN PushSym(addr.heap, addr.state, addr.state.smem[wordToInt(a)])
                     ELSE PushSym(addr.heap, addr.state, SymAny(a))
            IN  [heap |-> q.heap, state |-> IncPc(q.state), result |-> <<"self">>,
                 forks |-> <<>>]
      [] i = "Read" ->
            LET q == PushSym(h, st, SymAny(st.var_cnt))
            IN  [heap |-> q.heap,
                 state |-> [q.state EXCEPT !.pc = st.pc + 1, !.var_cnt = st.var_cnt + 1],
                 result |-> <<"self">>, forks |-> <<>>]
      [] i = "Push" ->
            LET q == PushSym(h, st, SymCon(instr.word))
            IN  [heap |-> q.heap, state |-> IncPc(q.state), result |-> <<"self">>,
                 forks |-> <<>>]
      [] i = "Dup" ->
            LET w == PopBack(h, st)
                q1 == PushSym(w.heap, IncPc(w.state), w.x)
                q2 == PushSym(q1.heap, q1.state, w.x)
            IN  [heap |-> q2.heap, state |-> q2.state, result |-> <<"self">>, forks |-> <<>>]
      [] i = "Pop" ->
            LET r == LLpop(h, st.symbolic_stack)
            IN  [heap |-> r.heap, state |-> IncPc([st EXCEPT !.symbolic_stack = r.list]),
                 result |-> <<"self">>, forks |-> <<>>]
      [] i = "JmpIf" ->
            LET c == PopBack(h, st)
                cond == psimplify(c.x, st.mem)
                addr == PopBack(c.heap, c.state)
                true_state == StateCopy(addr.state)
                false_state == StateCopy(addr.state)
            IN  IF addr.x.symtype = "SCon"
                THEN [heap |-> addr.heap, state |-> addr.state,
                      result |-> <<"true_state", "false_state">>,
                      forks |-> <<[true_state EXCEPT
                                      !.pc = JmpIfTarget(true_state, addr.x),
                                      !.path_constraints = Append(@, cond),
                                      !.branches = Append(@, TRUE)],
                                  [false_state EXCEPT
                                      !.pc = false_state.pc + 1,
                                      !.path_constraints = Append(@, SymUn("SNot", cond)),
                                      !.branches = Append(@, FALSE)]>>]
                ELSE [heap |-> addr.heap, state |-> addr.state, result |-> <<>>,
                      forks |-> <<>>]
      [] i = "Jmp" ->
            LET addr == PopBack(h, st)
            IN  [heap |-> addr.heap,
                 state |-> [addr.state EXCEPT
                               !.pc = addr.state.pc + wordToInt(ReadField(addr.x.word, g1))],
                 result |-> <<"self">>, forks |-> <<>>]
      [] i = "Nop" ->
            [heap |-> h, state |-> IncPc(st), result |-> <<"self">>, forks |-> <<>>]
      [] OTHER ->
            [heap |-> h, state |-> st, result |-> <<>>, forks |-> <<>>]


(***************************************************************************)
(* SExecutor (symbolic.h)                                                  *)
(***************************************************************************)

VARIABLES
    prog,               \* the compiled program (Prog)
    target_pcs,         \* the pcs at which constraints are solved
    use_dpll,           \* BaseExecutor::use_dpll
    maxSAT, maxUNSAT,   \* BaseExecutor budgets
    constraints_cache,  \* constraints_str -> (is_sat, params)
    seed,               \* optimizer.seed
    heap,               \* the LLNode objects allocated so far
    states,             \* the SymState objects allocated so far
    frames,             \* the activations of run, innermost last
    conf,               \* the arguments the run was started with
    solved,             \* history: constraints_str -> the constraints solved
    expr,               \* the Boolean expression handed to satisfiableDPLL
    sat_out,            \* what satisfiableDPLL returned for expr
    fork,               \* the two successors of a JmpIf stepped on their own
    random_vars,        \* PSExecutor: the variable ids registered as random
    prob_constraints_table, \* PSExecutor: pc -> the (cc, mem, p) of final states
    call,               \* a function of the library called on its own: its arguments
    ret,                \* what that call returned
    list                \* a Linkedlist used on its own, with the history of its use

\* the variables of the Boolean layer
satVars == <<expr, sat_out>>

\* the variables no run of SExecutor touches
restVars == <<expr, sat_out, fork, random_vars, prob_constraints_table, call, ret, list>>

\* the variables of the functions and the list used on their own
unitVars == <<call, ret, list>>

\* the variables of the probabilistic executor alone
probVars == <<random_vars, prob_constraints_table>>

\* the variables of the executor
execVars == <<prog, target_pcs, use_dpll, maxSAT, maxUNSAT, constraints_cache, seed,
              heap, states, frames, conf, solved>>

\* is_target_pc(target_pcs, pc)
is_target_pc(tpcs, pc) == tpcs = {} \/ -1 \in tpcs \/ pc \in tpcs

\* explore_further without the two solver budgets
explore_furtherDepthOnly(maxDepth, mSAT, mUNSAT) == maxDepth > 0

\* explore_further without the depth
explore_furtherBudgetsOnly(maxDepth, mSAT, mUNSAT) == mSAT > 0 /\ mUNSAT > 0

\* explore_further(maxDepth, maxSAT, maxUNSAT)
explore_further(maxDepth, mSAT, mUNSAT) == maxDepth > 0 /\ mSAT > 0 /\ mUNSAT > 0

RECURSIVE JoinConstraints(_, _)
JoinConstraints(pcs, j) ==
    IF j > Len(pcs) THEN ""
    ELSE SymToString(pcs[j]) \o (IF j /= Len(pcs) THEN "&&" ELSE "")
         \o JoinConstraints(pcs, j + 1)

\* SymState::toString(false)
StateToString(st) == "Path Constraints: " \o JoinConstraints(st.path_constraints, 1) \o "\n"

\* the orders in which an unordered_set over S can be iterated
Perms(S) == {f \in [1..Cardinality(S) -> S] : \A i, j \in DOMAIN f : i /= j => f[i] /= f[j]}

\* a solve that records the verdict and reports every set as satisfiable
SolveOutcomeAlwaysSat(st, cache, mSAT, mUNSAT, sd, order, dpll) ==
    LET constraints_str == StateToString(st)
        params == initialize_params(st.mem)
    IN  IF constraints_str \in DOMAIN cache
        THEN [is_sat |-> TRUE, cache |-> cache,
              maxSAT |-> mSAT, maxUNSAT |-> mUNSAT, seed |-> sd, known |-> TRUE]
        ELSE With(call_smt_solver(TRUE, st.path_constraints, st.mem, params, sd,
                                  order, dpll), LAMBDA r :
                  [is_sat |-> TRUE,
                   cache |-> MapPut(cache, constraints_str,
                                    [is_sat |-> r.is_sat, params |-> r.params]),
                   maxSAT |-> IF r.is_sat THEN mSAT - 1 ELSE mSAT,
                   maxUNSAT |-> IF r.is_sat THEN mUNSAT ELSE mUNSAT - 1,
                   seed |-> r.seed, known |-> FALSE])

\* a solve that charges the budget on a cache hit as well
SolveOutcomeChargesHits(st, cache, mSAT, mUNSAT, sd, order, dpll) ==
    LET constraints_str == StateToString(st)
        params == initialize_params(st.mem)
    IN  IF constraints_str \in DOMAIN cache
        THEN [is_sat |-> cache[constraints_str].is_sat, cache |-> cache,
              maxSAT |-> IF cache[constraints_str].is_sat THEN mSAT - 1 ELSE mSAT,
              maxUNSAT |-> IF cache[constraints_str].is_sat THEN mUNSAT ELSE mUNSAT - 1,
              seed |-> sd, known |-> TRUE]
        ELSE With(call_smt_solver(TRUE, st.path_constraints, st.mem, params, sd,
                                  order, dpll), LAMBDA r :
                  [is_sat |-> r.is_sat,
                   cache |-> MapPut(cache, constraints_str,
                                    [is_sat |-> r.is_sat, params |-> r.params]),
                   maxSAT |-> IF r.is_sat THEN mSAT - 1 ELSE mSAT,
                   maxUNSAT |-> IF r.is_sat THEN mUNSAT ELSE mUNSAT - 1,
                   seed |-> r.seed, known |-> FALSE])

\* SExecutor::solve(is_target, pc, state)
SolveOutcome(st, cache, mSAT, mUNSAT, sd, order, dpll) ==
    LET constraints_str == StateToString(st)
        params == initialize_params(st.mem)
    IN  IF constraints_str \in DOMAIN cache
        THEN [is_sat |-> cache[constraints_str].is_sat, cache |-> cache,
              maxSAT |-> mSAT, maxUNSAT |-> mUNSAT, seed |-> sd, known |-> TRUE]
        ELSE With(call_smt_solver(TRUE, st.path_constraints, st.mem, params, sd,
                                  order, dpll), LAMBDA r :
                  [is_sat |-> r.is_sat,
                   cache |-> MapPut(cache, constraints_str,
                                    [is_sat |-> r.is_sat, params |-> r.params]),
                   maxSAT |-> IF r.is_sat THEN mSAT - 1 ELSE mSAT,
                   maxUNSAT |-> IF r.is_sat THEN mUNSAT ELSE mUNSAT - 1,
                   seed |-> r.seed, known |-> FALSE])

Top == frames[Len(frames)]

PopFrame == SubSeq(frames, 1, Len(frames) - 1)

\* the instruction at pc (prog is indexed from 0 in the program)
InstrAt(pc) == prog[pc + 1]

\* the iteration orders that matter to a call of solve: one per order of the
\* variables when the solver runs, a single one on a cache hit
SolveOrders(st, must_solve) ==
    IF must_solve /\ StateToString(st) \notin DOMAIN constraints_cache
    THEN Perms(UnionVarIds(st.path_constraints)) ELSE {<<>>}

\* the values the uninitialised fields read by instr can take
GarbageOf(instr) == IF instr.instr \in {"Store", "Load", "Jmp"} THEN GarbageVals ELSE {0}

\* the history field steps after one more symStep
CountStep(st) == [st EXCEPT !.steps = @ + 1]

\* run(prog, target_pcs, state, maxDepth) from its entry to the start of the
\* loop over newStates, or to its return when it does not step: what it does
\* to the executor, the states and the stack of activations
RunEnterStep ==
    /\ frames /= <<>>
    /\ Top.phase = "enter"
    /\ LET st == states[Top.state]
           pc == st.pc
           is_target == is_target_pc(target_pcs, pc)
           must_solve == Len(st.path_constraints) /= 0 /\ is_target
       IN  \E order \in SolveOrders(st, must_solve) :
             \E o \in {IF must_solve
                        THEN SolveOutcome(st, constraints_cache, maxSAT, maxUNSAT, seed,
                                          order, use_dpll)
                        ELSE [is_sat |-> TRUE, cache |-> constraints_cache,
                              maxSAT |-> maxSAT, maxUNSAT |-> maxUNSAT, seed |-> seed,
                              known |-> TRUE]} :
                 /\ constraints_cache' = o.cache
                 /\ maxSAT' = o.maxSAT
                 /\ maxUNSAT' = o.maxUNSAT
                 /\ seed' = o.seed
                 /\ solved' = IF o.known THEN solved
                              ELSE MapPut(solved, StateToString(st), st.path_constraints)
                 /\ IF InstrAt(pc).instr = "Done" \/ ~o.is_sat
                    THEN /\ frames' = PopFrame
                         /\ UNCHANGED <<heap, states>>
                    ELSE IF explore_further(Top.maxDepth, maxSAT', maxUNSAT')
                    THEN \E g1, g2 \in GarbageOf(InstrAt(pc)) :
                         \E r \in {symStep(heap, st, InstrAt(pc), g1, g2)} :
                             /\ heap' = r.heap
                             /\ states' = [states EXCEPT ![Top.state] = CountStep(r.state)]
                                           \o [k \in DOMAIN r.forks |-> CountStep(r.forks[k])]
                             /\ frames' = [frames EXCEPT ![Len(frames)] =
                                    [@ EXCEPT !.phase = "loop",
                                              !.newStates =
                                                  IF r.result = <<"self">> THEN <<Top.state>>
                                                  ELSE [k \in 1..Len(r.forks) |->
                                                           Len(states) + k]]]
                    ELSE /\ frames' = PopFrame
                         /\ UNCHANGED <<heap, states>>

\* run from its entry, as above; it touches nothing else
RunEnter ==
    /\ RunEnterStep
    /\ UNCHANGED <<prog, target_pcs, use_dpll, conf, restVars>>

\* the loop over newStates taken from the back
RunChildLastFirst ==
    /\ frames /= <<>>
    /\ Top.phase = "loop"
    /\ Top.newStates /= <<>>
    /\ frames' = Append([frames EXCEPT ![Len(frames)].newStates =
                                          SubSeq(@, 1, Len(@) - 1)],
                        [state |-> Top.newStates[Len(Top.newStates)],
                         maxDepth |-> Top.maxDepth - 1,
                         newStates |-> <<>>, phase |-> "enter"])
    /\ UNCHANGED <<prog, target_pcs, use_dpll, maxSAT, maxUNSAT, constraints_cache, seed,
                   heap, states, conf, solved, restVars>>

\* for (SymState *newState : newStates) run(prog, target_pcs, *newState, maxDepth - 1)
RunChild ==
    /\ frames /= <<>>
    /\ Top.phase = "loop"
    /\ Top.newStates /= <<>>
    /\ frames' = Append([frames EXCEPT ![Len(frames)].newStates = Tail(@)],
                        [state |-> Head(Top.newStates), maxDepth |-> Top.maxDepth - 1,
                         newStates |-> <<>>, phase |-> "enter"])
    /\ UNCHANGED <<prog, target_pcs, use_dpll, maxSAT, maxUNSAT, constraints_cache, seed,
                   heap, states, conf, solved, restVars>>

\* the end of the loop over newStates: the activation is over
RunReturnStep ==
    /\ frames /= <<>>
    /\ Top.phase = "loop"
    /\ Top.newStates = <<>>
    /\ frames' = PopFrame

\* return Trace(state, children) once the loop is over
RunReturn ==
    /\ RunReturnStep
    /\ UNCHANGED <<prog, target_pcs, use_dpll, maxSAT, maxUNSAT, constraints_cache, seed,
                   heap, states, conf, solved, restVars>>


(***************************************************************************)
(* Programs and configurations the executor is run on                      *)
(***************************************************************************)

\* test_workflow.cpp, GymboWorkflowTest.Block (a = 0, b = 1, c = 2):
\*   if (a > 2) { b = 1; if (b == 4) { c = 3; }
\*                if (b == 3) { return 1; } else { c = 1; } }
\*   if (c == 1) return 2;
BlockCode ==
    << If(Gt(LVar(0), Num(2)),
          Block(<< Assign(LVar(1), Num(1)),
                   If(Bin("ND_EQ", LVar(1), Num(4)),
                      Block(<<Assign(LVar(2), Num(3))>>), NullNode),
                   If(Bin("ND_EQ", LVar(1), Num(3)),
                      Block(<<Return(Num(1))>>),
                      Block(<<Assign(LVar(2), Num(1))>>)) >>),
          NullNode),
       If(Bin("ND_EQ", LVar(2), Num(1)), Return(Num(2)), NullNode),
       NullNode >>

\* x = 1; x = a; if (x == 2) return 1;            (x = 0, a = 1)
ReassignCode ==
    << Assign(LVar(0), Num(1)), Assign(LVar(0), LVar(1)),
       If(Bin("ND_EQ", LVar(0), Num(2)), Return(Num(1)), NullNode), NullNode >>

\* a = b; b = 1; if (a == 1) return 1; else return 0;   (a = 0, b = 1)
AliasCode ==
    << Assign(LVar(0), LVar(1)), Assign(LVar(1), Num(1)),
       If(Bin("ND_EQ", LVar(0), Num(1)), Return(Num(1)), Return(Num(0))), NullNode >>

\* if (a != b) return 1; else return 2;           (a = 0, b = 1)
NeCode ==
    << If(Bin("ND_NE", LVar(0), LVar(1)), Return(Num(1)), Return(Num(2))), NullNode >>

\* if (a == 1) { if (a == 1) return 1; else return 2; }
TwiceCode ==
    << If(Bin("ND_EQ", LVar(0), Num(1)),
          Block(<<If(Bin("ND_EQ", LVar(0), Num(1)), Return(Num(1)), Return(Num(2)))>>),
          NullNode),
       NullNode >>

\* if (a < 1 || b < 1) return 1;
OrCode ==
    << If(Bin("ND_OR", Bin("ND_LT", LVar(0), Num(1)), Bin("ND_LT", LVar(1), Num(1))),
          Return(Num(1)), NullNode),
       NullNode >>

\* x = a + 1; if (x < 3) return 1; x = 2;         (x = 0, a = 1)
SumCode ==
    << Assign(LVar(0), Bin("ND_ADD", LVar(1), Num(1))),
       If(Bin("ND_LT", LVar(0), Num(3)), Return(Num(1)), NullNode),
       Assign(LVar(0), Num(2)), NullNode >>

\* if (a == 1 && b == 2) return 1; else return 0;
AndCode ==
    << If(Bin("ND_AND", Bin("ND_EQ", LVar(0), Num(1)), Bin("ND_EQ", LVar(1), Num(2))),
          Return(Num(1)), Return(Num(0))),
       NullNode >>

\* x = y; x = 5; if (y == 5) return 1;            (x = 0, y = 1)
OverwriteCode ==
    << Assign(LVar(0), LVar(1)), Assign(LVar(0), Num(5)),
       If(Bin("ND_EQ", LVar(1), Num(5)), Return(Num(1)), NullNode), NullNode >>

Codes == [Block |-> BlockCode, Reassign |-> ReassignCode, Alias |-> AliasCode,
          Ne |-> NeCode, Twice |-> TwiceCode, Or |-> OrCode, Sum |-> SumCode,
          And |-> AndCode, Overwrite |-> OverwriteCode]

\* a Prog written by hand, as the tests build them: Push -1; Jmp; Done.
\* Jmp adds -1 to the pc of the Jmp, so the two instructions repeat for ever
LoopProg == <<InsW("Push", -1), Ins("Jmp"), Ins("Done")>>

ProgNames == DOMAIN Codes \cup {"Loop"}

ProgOf(name) == IF name = "Loop" THEN LoopProg ELSE compile_ast(Codes[name])

\* the budgets of test_workflow.cpp
max_depth == 65536

\* the largest of the small values of maxDepth
MaxSmallDepth == 9

\* the values of maxDepth a program is run with
Depths(name) == (0..MaxSmallDepth) \cup (IF name = "Loop" THEN {} ELSE {max_depth})

\* the smallest budgets explored besides those of the test
MaxSmallBudget == 2

Budgets == (1..MaxSmallBudget) \cup {max_depth}

\* no probabilistic run is under way
ProbIdle == random_vars = {} /\ prob_constraints_table = EmptyMap

\* no JmpIf is being followed
ForkIdle == fork = [phase |-> "idle", moved |-> 0, steps |-> 0, snapshot |-> <<>>]

\* no function and no list is used on its own
UnitIdle ==
    /\ call = [fn |-> "none"]
    /\ ret = [called |-> FALSE]
    /\ list = [l |-> EmptyList, pushed |-> <<>>, pushes |-> 0, pops |-> 0]

\* no call of satisfiableDPLL is under way
SatIdle == expr = Const(FALSE) /\ sat_out = [called |-> FALSE, sat |-> FALSE, map |-> EmptyMap]

Init ==
    /\ \E name \in ProgNames, ms, mu \in Budgets :
        \E md \in Depths(name) :
          /\ prog = ProgOf(name)
          /\ maxSAT = ms
          /\ maxUNSAT = mu
          /\ frames = <<[state |-> 1, maxDepth |-> md, newStates |-> <<>>,
                         phase |-> "enter"]>>
          /\ conf = [program |-> name, maxSAT |-> ms, maxUNSAT |-> mu, maxDepth |-> md]
    /\ use_dpll \in BOOLEAN
    /\ target_pcs = {}
    /\ constraints_cache = EmptyMap
    /\ solved = EmptyMap
    /\ seed = InitialSeed
    /\ heap = <<>>
    /\ states = <<InitSymState(EmptyMap)>>
    /\ SatIdle
    /\ ForkIdle
    /\ ProbIdle
    /\ UnitIdle

Next == RunEnter \/ RunChild \/ RunReturn

vars == <<prog, target_pcs, use_dpll, maxSAT, maxUNSAT, constraints_cache, seed, heap,
          states, frames, conf, solved, expr, sat_out, fork, random_vars,
          prob_constraints_table, call, ret, list>>

Spec == Init /\ [][Next]_vars

(***************************************************************************)
(* satisfiableDPLL called on its own (sat.h)                               *)
(***************************************************************************)

\* the names of the Boolean variables, and how many of them are used
VarNames == <<"A", "B", "C", "D">>

NumSatVars == 2

Atoms == {Var(VarNames[i]) : i \in 1..NumSatVars} \cup {Const(TRUE), Const(FALSE)}

\* the expressions one constructor deeper than those of S
Grow(S) == S \cup {Not(e) : e \in S} \cup {And(l, r) : l, r \in S}
             \cup {Or(l, r) : l, r \in S}

\* (A || !(B && (A || C)))
DpllExample == Or(Var("A"), Not(And(Var("B"), Or(Var("A"), Var("C")))))

\* A && !!A
DoubleNegExample == And(Var("A"), Not(Not(Var("A"))))

SatInputs == Grow(Grow(Atoms)) \cup {DpllExample, DoubleNegExample}

\* no run of the executor is under way
ExecIdle ==
    /\ prog = <<>> /\ target_pcs = {} /\ use_dpll = FALSE /\ maxSAT = 0 /\ maxUNSAT = 0
    /\ constraints_cache = EmptyMap /\ seed = InitialSeed /\ heap = <<>>
    /\ states = <<>> /\ frames = <<>> /\ solved = EmptyMap
    /\ conf = [program |-> "none", maxSAT |-> 0, maxUNSAT |-> 0, maxDepth |-> 0]

InitSat ==
    /\ expr \in SatInputs
    /\ sat_out = [called |-> FALSE, sat |-> FALSE, map |-> EmptyMap]
    /\ ExecIdle
    /\ ForkIdle
    /\ ProbIdle
    /\ UnitIdle

\* satisfiableDPLL(expr, assignments_map) with an empty assignments_map
DpllCall ==
    /\ ~sat_out.called
    /\ LET r == satisfiableDPLL(expr, EmptyMap)
       IN  sat_out' = [called |-> TRUE, sat |-> r.sat, map |-> r.map]
    /\ UNCHANGED <<expr, execVars, fork, probVars, unitVars>>

NextSat == DpllCall

SpecSat == InitSat /\ [][NextSat]_vars

\* e with every assignment of assignments_map substituted (Expr::guessVar)
RECURSIVE SubstAll(_, _, _)
SubstAll(e, keys, assignments_map) ==
    IF keys = <<>> THEN e
    ELSE SubstAll(guessVar(e, Head(keys), assignments_map[Head(keys)]), Tail(keys),
                  assignments_map)

\* the truth value of e under a valuation of all variable names
RECURSIVE Truth(_, _)
Truth(e, v) ==
    CASE e.opcode = "VAR" -> v[e.vname]
      [] e.opcode = "AND" -> Truth(e.left, v) /\ Truth(e.right, v)
      [] e.opcode = "OR" -> Truth(e.left, v) \/ Truth(e.right, v)
      [] e.opcode = "NOT" -> ~Truth(e.expr, v)
      [] OTHER -> e.value

Satisfiable(e) == \E v \in [{VarNames[i] : i \in DOMAIN VarNames} -> BOOLEAN] : Truth(e, v)

\* C7: if satisfiableDPLL returns true with assignments A for e, substituting A
\* into the original e and simplifying yields the constant True
C7_DpllAssignmentSatisfies ==
    (sat_out.called /\ sat_out.sat) =>
        LET r == simplify(SubstAll(expr, KeySeq(DOMAIN sat_out.map), sat_out.map))
        IN  r.opcode = "CONST" /\ unConst(r)

\* C8: satisfiableDPLL, called with an empty assignment map, returns true for
\* every satisfiable expression and false only for unsatisfiable ones, and it
\* returns true with A assigned true for (A || !(B && (A || C)))
C8_DpllDecidesSatisfiability ==
    sat_out.called =>
        /\ Satisfiable(expr) => sat_out.sat
        /\ expr = DpllExample =>
              (sat_out.sat /\ "A" \in DOMAIN sat_out.map /\ sat_out.map["A"])

(***************************************************************************)
(* Properties of the deterministic executor                                *)
(***************************************************************************)

Done == frames = <<>>

SatEntries == {k \in DOMAIN constraints_cache : constraints_cache[k].is_sat}

UnsatEntries == {k \in DOMAIN constraints_cache : ~constraints_cache[k].is_sat}

\* atom evaluates to <= 0 under params (eval reads every variable of the atom
\* with cvals.at, so params has to bind them all)
Holds(atom, params) ==
    /\ gather_var_ids(atom) \subseteq DOMAIN params
    /\ eval(atom, params, eps) <= 0

\* largest variable id and largest initial value of the concrete runs
MaxVar == 2

MaxInput == 3

Envs == [0..MaxVar -> 0..MaxInput]

\* some initial valuation makes every atom of pcs evaluate to <= 0
Feasible(pcs) == \E env \in Envs : \A i \in 1..Len(pcs) : Holds(pcs[i], env)

\* every cache entry recorded as satisfiable carries params under which every
\* atom of the constraints it was recorded for evaluates to <= 0
RecordedSatSound ==
    \A k \in SatEntries :
        \A i \in 1..Len(solved[k]) : Holds(solved[k][i], constraints_cache[k].params)

\* C1: in every SymState reached by symStep from the initial state of a
\* compiled program, no address has both a mem entry and an smem entry
C1_MemSmemDisjoint ==
    \A i \in 1..Len(states) : (DOMAIN states[i].mem) \cap (DOMAIN states[i].smem) = {}

\* C2: with the union solver, every entry recorded as satisfiable has params
\* under which every atom of its path constraints evaluates to <= 0
C2_UnionSolverSound == (~use_dpll) => RecordedSatSound

\* a run with the union solver has recorded a satisfiable entry of two atoms
\* over a variable
C2_Witness ==
    /\ ~use_dpll
    /\ \E k \in SatEntries :
          /\ Len(solved[k]) >= 2
          /\ UnionVarIds(solved[k]) /= {}

\* C3: with the DPLL solver, every entry recorded as satisfiable has params
\* under which every atom of the original path constraints evaluates to <= 0
C3_DpllSolverSound == use_dpll => RecordedSatSound

\* C5: the Block test program, run with the union solver, every pc a target
\* and the budgets of the test, ends with 7 satisfiable and 3 unsatisfiable
\* cache entries, one per path-constraint string reached
BlockRun ==
    /\ conf.program = "Block"
    /\ ~use_dpll
    /\ target_pcs = {}
    /\ conf.maxSAT = max_depth /\ conf.maxUNSAT = max_depth /\ conf.maxDepth = max_depth

C5_BlockCacheCounts ==
    (BlockRun /\ Done) =>
        /\ Cardinality(SatEntries) = 7
        /\ Cardinality(UnsatEntries) = 3
        /\ DOMAIN constraints_cache =
              {StateToString(states[i]) : i \in 2..Len(states)}
        /\ \A k \in DOMAIN constraints_cache :
              constraints_cache[k].is_sat <=> Feasible(solved[k])

\* the Block run has ended with its ten entries
C5_Witness == BlockRun /\ Done /\ Cardinality(DOMAIN constraints_cache) = 10

\* C10: the number of satisfiable entries never exceeds the initial maxSAT and
\* the number of unsatisfiable entries never exceeds the initial maxUNSAT, so
\* neither budget becomes negative
C10_CacheWithinBudgets ==
    /\ Cardinality(SatEntries) <= conf.maxSAT
    /\ Cardinality(UnsatEntries) <= conf.maxUNSAT
    /\ maxSAT >= 0
    /\ maxUNSAT >= 0


(***************************************************************************)
(* Concrete meaning of the source language (the node kinds of parser.h),   *)
(* the reference the collected path constraints are compared with          *)
(***************************************************************************)

BoolToInt(b) == IF b THEN 1 ELSE 0

\* the value of an expression node under env
RECURSIVE CExpr(_, _)
CExpr(node, env) ==
    CASE node.kind = "ND_NUM" -> node.val
      [] node.kind = "ND_LVAR" -> env[node.offset]
      [] node.kind = "ND_ADD" -> CExpr(node.lhs, env) + CExpr(node.rhs, env)
      [] node.kind = "ND_SUB" -> CExpr(node.lhs, env) - CExpr(node.rhs, env)
      [] node.kind = "ND_MUL" -> CExpr(node.lhs, env) * CExpr(node.rhs, env)
      [] node.kind = "ND_EQ" -> BoolToInt(CExpr(node.lhs, env) = CExpr(node.rhs, env))
      [] node.kind = "ND_NE" -> BoolToInt(CExpr(node.lhs, env) /= CExpr(node.rhs, env))
      [] node.kind = "ND_LT" -> BoolToInt(CExpr(node.lhs, env) < CExpr(node.rhs, env))
      [] node.kind = "ND_LE" -> BoolToInt(CExpr(node.lhs, env) <= CExpr(node.rhs, env))
      [] node.kind = "ND_AND" ->
            BoolToInt(CExpr(node.lhs, env) /= 0 /\ CExpr(node.rhs, env) /= 0)
      [] OTHER -> BoolToInt(CExpr(node.lhs, env) /= 0 \/ CExpr(node.rhs, env) /= 0)

\* a statement run from c = [env, branches, returned]; branches lists the
\* outcome of every if condition evaluated so far
RECURSIVE CStmt(_, _)
RECURSIVE CSeq(_, _)
CStmt(node, c) ==
    IF c.returned \/ node = NullNode THEN c
    ELSE CASE node.kind = "ND_RETURN" -> [c EXCEPT !.returned = TRUE]
           [] node.kind = "ND_BLOCK" -> CSeq(node.blocks, c)
           [] node.kind = "ND_IF" ->
                 LET t == CExpr(node.cond, c.env) /= 0
                     c1 == [c EXCEPT !.branches = Append(@, t)]
                 IN  IF t THEN CStmt(node.then, c1) ELSE CStmt(node.els, c1)
           [] node.kind = "ND_ASSIGN" ->
                 [c EXCEPT !.env[node.lhs.offset] = CExpr(node.rhs, c.env)]
           [] OTHER -> c

CSeq(stmts, c) == IF stmts = <<>> THEN c ELSE CSeq(Tail(stmts), CStmt(Head(stmts), c))

\* the branch outcomes of the concrete run of code from the initial values env
ConcreteBranches(code, env) ==
    CSeq(code, [env |-> env, branches |-> <<>>, returned |-> FALSE]).branches

IsPrefix(p, q) == Len(p) <= Len(q) /\ SubSeq(q, 1, Len(p)) = p

\* the conjunction of the path constraints of st is true under env
PathTrue(st, env) ==
    \A j \in 1..Len(st.path_constraints) : Holds(st.path_constraints[j], env)

\* C4: for every initial valuation, the path constraints collected along an
\* explored path are true under it exactly when the concrete run of the
\* program from it follows that path.  Path constraints are only ever extended
\* at a fork, so the two successors are compared when JmpIf has made them.
C4_PathConstraintsMatchConcrete ==
    (frames /= <<>> /\ Top.phase = "loop" /\ Len(Top.newStates) = 2) =>
        \A k \in 1..2 : \A env \in Envs :
            LET st == states[Top.newStates[k]]
            IN  PathTrue(st, env) <=>
                    IsPrefix(st.branches, ConcreteBranches(Codes[conf.program], env))

(***************************************************************************)
(* symStep applied to the successors of a JmpIf (symbolic.h, type.h)       *)
(***************************************************************************)

\* most steps taken before the JmpIf, and on its successors after it
MaxPrepare == 3

MaxForkSteps == 2

\* largest word pushed
MaxPushWord == 2

\* the number of back() calls instr makes before it pushes
Needs(instr) ==
    CASE instr.instr \in {"Not", "Dup", "Load", "Jmp"} -> 1
      [] instr.instr \in {"Add", "Sub", "Mul", "And", "Or", "Lt", "Le", "Eq", "Swap",
                          "Store", "JmpIf"} -> 2
      [] OTHER -> 0

\* n times back() then pop() on l never reads through a NULL tail
RECURSIVE CanPop(_, _, _)
CanPop(h, l, n) ==
    IF n = 0 THEN TRUE
    ELSE /\ l.tail /= NULL
         /\ LET r == LLpop(h, l) IN CanPop(r.heap, r.list, n - 1)

\* what back() and pop() show of l: the data of back(), then pop(), until the
\* tail is NULL (at most fuel elements)
RECURSIVE StackView(_, _, _)
StackView(h, l, fuel) ==
    IF l.tail = NULL \/ fuel = 0 THEN <<>>
    ELSE LET r == LLpop(h, l)
         IN  <<LLback(h, l)>> \o StackView(r.heap, r.list, fuel - 1)

\* the parts of a state a step on another state has to leave alone
Observe(h, st) ==
    [mem |-> st.mem, smem |-> st.smem, path_constraints |-> st.path_constraints,
     symbolic_stack |-> StackView(h, st.symbolic_stack, Len(h) + 2)]

PrepareInstrs ==
    {InsW("Push", FloatToWord(w)) : w \in 1..MaxPushWord} \cup {Ins("Read"), Ins("Pop")}

ForkInstrs ==
    PrepareInstrs \cup {Ins("Not"), Ins("Add"), Ins("Dup"), Ins("Swap"), Ins("Store"),
                        Ins("Load")}

InitFork ==
    /\ prog = <<>> /\ target_pcs = {} /\ use_dpll = FALSE /\ maxSAT = 0 /\ maxUNSAT = 0
    /\ constraints_cache = EmptyMap /\ seed = InitialSeed /\ frames = <<>>
    /\ solved = EmptyMap
    /\ conf = [program |-> "none", maxSAT |-> 0, maxUNSAT |-> 0, maxDepth |-> 0]
    /\ heap = <<>>
    /\ states = <<InitSymState(EmptyMap)>>
    /\ fork = [phase |-> "prepare", moved |-> 0, steps |-> 0, snapshot |-> <<>>]
    /\ SatIdle
    /\ ProbIdle
    /\ UnitIdle

\* one symStep on the state that is going to fork
ForkPrepare ==
    /\ fork.phase = "prepare"
    /\ fork.steps < MaxPrepare
    /\ \E instr \in PrepareInstrs :
          \E r \in {symStep(heap, states[1], instr, 0, 0)} :
              /\ heap' = r.heap
              /\ states' = <<r.state>>
    /\ fork' = [fork EXCEPT !.steps = @ + 1]
    /\ UNCHANGED <<prog, target_pcs, use_dpll, maxSAT, maxUNSAT, constraints_cache, seed,
                   frames, conf, solved, satVars, probVars, unitVars>>

\* symStep of JmpIf: states[2] is the true successor, states[3] the false one
ForkJmpIf ==
    /\ fork.phase = "prepare"
    /\ CanPop(heap, states[1].symbolic_stack, Needs(Ins("JmpIf")))
    /\ \E r \in {symStep(heap, states[1], Ins("JmpIf"), 0, 0)} :
           /\ heap' = r.heap
           /\ states' = <<r.state>> \o r.forks
           /\ fork' = IF r.forks = <<>>
                      THEN [fork EXCEPT !.phase = "stuck"]
                      ELSE [phase |-> "forked", moved |-> 0, steps |-> 0,
                            snapshot |-> <<Observe(r.heap, r.state),
                                           Observe(r.heap, r.forks[1]),
                                           Observe(r.heap, r.forks[2])>>]
    /\ UNCHANGED <<prog, target_pcs, use_dpll, maxSAT, maxUNSAT, constraints_cache, seed,
                   frames, conf, solved, satVars, probVars, unitVars>>

\* one symStep on one successor, always the same one
ForkStep ==
    /\ fork.phase = "forked"
    /\ fork.steps < MaxForkSteps
    /\ \E k \in 2..3, instr \in ForkInstrs :
          /\ fork.moved \in {0, k}
          /\ CanPop(heap, states[k].symbolic_stack, Needs(instr))
          /\ \E g1, g2 \in GarbageOf(instr) :
                \E r \in {symStep(heap, states[k], instr, g1, g2)} :
                    /\ heap' = r.heap
                    /\ states' = [states EXCEPT ![k] = r.state]
          /\ fork' = [fork EXCEPT !.moved = k, !.steps = @ + 1]
    /\ UNCHANGED <<prog, target_pcs, use_dpll, maxSAT, maxUNSAT, constraints_cache, seed,
                   frames, conf, solved, satVars, probVars, unitVars>>

NextFork == ForkPrepare \/ ForkJmpIf \/ ForkStep

SpecFork == InitFork /\ [][NextFork]_vars

\* C9: after JmpIf has forked a state, no sequence of symStep operations on one
\* successor changes the mem, smem, path_constraints of the other, or what
\* back() and pop() show of its symbolic stack
C9_ForkSuccessorsIndependent ==
    (fork.phase = "forked" /\ fork.moved /= 0) =>
        LET other == 5 - fork.moved
        IN  Observe(heap, states[other]) = fork.snapshot[other]

(***************************************************************************)
(* Probabilistic executor (psymbolic.h, SymProb and DiscreteDist of type.h)*)
(***************************************************************************)

\* SymProb(numerator, denominator)
SymProbNew(n, d) == [numerator |-> n, denominator |-> d]

\* a product that never cancels
SymProbMulNoCancel(a, b) ==
    SymProbNew(SymBin("SMul", a.numerator, b.numerator),
               SymBin("SMul", a.denominator, b.denominator))

\* SymProb::operator*(other)
SymProbMul(a, b) ==
    IF SymToString(a.denominator) = SymToString(b.numerator)
    THEN SymProbNew(a.numerator, b.denominator)
    ELSE IF SymToString(a.numerator) = SymToString(b.denominator)
    THEN SymProbNew(b.numerator, a.denominator)
    ELSE SymProbNew(SymBin("SMul", a.numerator, b.numerator),
                    SymBin("SMul", a.denominator, b.denominator))

\* state.p->pmul(state.cond_p): the product with the cancellation rule
pmul(p, cond_p) == SymProbMul(p, cond_p)

\* DiscreteUniformDist(low, high).vals
DiscreteUniformDist(low, high) == [i \in 1..(high - low + 1) |-> low + i - 1]

\* cartesianProduct(vectors) of utils.h
Singletons(v) == [i \in 1..Len(v) |-> <<v[i]>>]

Cross(result, v) ==
    [k \in 1..(Len(result) * Len(v)) |->
        Append(result[((k - 1) \div Len(v)) + 1], v[((k - 1) % Len(v)) + 1])]

RECURSIVE CrossFrom(_, _, _)
CrossFrom(result, vectors, i) ==
    IF i > Len(vectors) THEN result
    ELSE CrossFrom(Cross(result, vectors[i]), vectors, i + 1)

cartesianProduct(vectors) ==
    IF Len(vectors) = 0 THEN <<>> ELSE CrossFrom(Singletons(vectors[1]), vectors, 2)

\* the conjunction path_constraints[0] && ... && path_constraints[k - 1],
\* nested to the left
RECURSIVE AndChain(_, _)
AndChain(pcs, k) == IF k <= 1 THEN pcs[1] ELSE SymBin("SAnd", AndChain(pcs, k - 1), pcs[k])

\* pbranch whose conditional factor has a denominator one constraint short
pbranchShortDenominator(st) ==
    LET pcs == st.path_constraints
        n == Len(pcs)
    IN  IF st.has_observed_p_cond
        THEN LET d_cond == AndChain(pcs, n - 2)
                 n_cond == SymBin("SAnd", AndChain(pcs, n - 1), pcs[n])
             IN  [st EXCEPT !.p = pmul(st.p, SymProbNew(n_cond, d_cond))]
        ELSE LET n_cond == IF n = 0 THEN SymCon(FloatToWord(0)) ELSE AndChain(pcs, n)
                 d_cond == SymCon(FloatToWord(1))
             IN  [st EXCEPT !.p = SymProbNew(n_cond, d_cond),
                            !.has_observed_p_cond = TRUE]

\* pbranch(state)
pbranch(st) ==
    LET pcs == st.path_constraints
        n == Len(pcs)
    IN  IF st.has_observed_p_cond
        THEN LET d_cond == AndChain(pcs, n - 1)
                 n_cond == SymBin("SAnd", d_cond, pcs[n])
             IN  [st EXCEPT !.p = pmul(st.p, SymProbNew(n_cond, d_cond))]
        ELSE LET n_cond == IF n = 0 THEN SymCon(FloatToWord(0)) ELSE AndChain(pcs, n)
                 d_cond == SymCon(FloatToWord(1))
             IN  [st EXCEPT !.p = SymProbNew(n_cond, d_cond),
                            !.has_observed_p_cond = TRUE]

\* solve_pconstraints(is_sat, is_target, pc, random_vars, optimizer, state, ...)
solve_pconstraints(st, cache, mSAT, mUNSAT, sd, order, dpll, rvars) ==
    LET constraints_str == StateToString(st)
        params == initialize_params(st.mem)
    IN  IF constraints_str \in DOMAIN cache
        THEN [is_sat |-> cache[constraints_str].is_sat, state |-> st, cache |-> cache,
              maxSAT |-> mSAT, maxUNSAT |-> mUNSAT, seed |-> sd, known |-> TRUE]
        ELSE IF UnionVarIds(st.path_constraints) \cap rvars /= {}
        THEN [is_sat |-> TRUE, state |-> pbranch(st),
              cache |-> MapPut(cache, constraints_str,
                               [is_sat |-> TRUE, params |-> params]),
              maxSAT |-> mSAT, maxUNSAT |-> mUNSAT, seed |-> sd, known |-> FALSE]
        ELSE With(call_smt_solver(TRUE, st.path_constraints, st.mem, params, sd,
                                  order, dpll), LAMBDA r :
                  [is_sat |-> r.is_sat,
                   state |-> IF r.is_sat
                             THEN [st EXCEPT !.p = SymProbNew(SymCon(FloatToWord(0)),
                                                              SymCon(FloatToWord(0)))]
                             ELSE st,
                   cache |-> MapPut(cache, constraints_str,
                                    [is_sat |-> r.is_sat, params |-> r.params]),
                   maxSAT |-> IF r.is_sat THEN mSAT - 1 ELSE mSAT,
                   maxUNSAT |-> IF r.is_sat THEN mUNSAT ELSE mUNSAT - 1,
                   seed |-> r.seed, known |-> FALSE])

\* update_prob_constraints_table(pc, state, prob_constraints_table)
update_prob_constraints_table(pc, st, table) ==
    LET cc == AndChain(st.path_constraints, Len(st.path_constraints))
        entry == [cc |-> cc, mem |-> st.mem, p |-> st.p]
    IN  IF pc \notin DOMAIN table THEN MapPut(table, pc, <<entry>>)
        ELSE MapPut(table, pc, Append(table[pc], entry))

\* PSExecutor::register_random_var(var_id)
register_random_var(rvars, var_id) == rvars \cup {var_id}

\* SymState::set_concrete_val(var_id, val)
set_concrete_val(mem, var_id, val) == MapEmplace(mem, var_id, FloatToWord(val))

\* the orders that matter to a call of solve_pconstraints: those of the
\* variables when the gradient solver runs
PSolveOrders(st, cache, rvars) ==
    IF /\ Len(st.path_constraints) /= 0
       /\ is_target_pc(target_pcs, st.pc)
       /\ StateToString(st) \notin DOMAIN cache
       /\ UnionVarIds(st.path_constraints) \cap rvars = {}
    THEN Perms(UnionVarIds(st.path_constraints)) ELSE {<<>>}

\* the values the uninitialised fields read by the instruction at st.pc can
\* take: a single one when the fields it reads have been set
PGarbageOf(h, st) ==
    LET instr == InstrAt(st.pc)
        addr == PopBack(h, st)
        w == PopBack(addr.heap, addr.state)
    IN  IF \/ instr.instr \in {"Load", "Jmp"} /\ addr.x.word = Undef
           \/ instr.instr = "Store" /\ addr.x.var_idx = Undef
           \/ instr.instr = "Store" /\ w.x.symtype /= "SCon" /\ w.x.var_idx = Undef
        THEN GarbageVals ELSE {0}

\* an activation that records a Done state only when its path constraints were
\* found satisfiable
PActivationSatOnly(h, st0, cache, mSAT, mUNSAT, sd, table, maxDepth, order, g1, g2) ==
    LET pc == st0.pc
        is_target == is_target_pc(target_pcs, pc)
        must_solve == Len(st0.path_constraints) /= 0 /\ is_target
        is_done == InstrAt(pc).instr = "Done"
    IN  With(IF must_solve
             THEN solve_pconstraints(st0, cache, mSAT, mUNSAT, sd, order, use_dpll,
                                     random_vars)
             ELSE [is_sat |-> TRUE, state |-> st0, cache |-> cache, maxSAT |-> mSAT,
                   maxUNSAT |-> mUNSAT, seed |-> sd, known |-> TRUE], LAMBDA o :
        With([heap |-> h, state |-> o.state, forks |-> <<>>, cache |-> o.cache,
              maxSAT |-> o.maxSAT, maxUNSAT |-> o.maxUNSAT, seed |-> o.seed,
              table |-> IF is_done /\ Len(o.state.path_constraints) > 0 /\ o.is_sat
                        THEN update_prob_constraints_table(pc, o.state, table)
                        ELSE table,
              maxDepth |-> maxDepth, kind |-> "return"], LAMBDA out :
             IF is_done \/ ~o.is_sat THEN out
             ELSE IF explore_further(maxDepth, o.maxSAT, o.maxUNSAT)
             THEN With(symStep(h, o.state, InstrAt(pc), g1, g2), LAMBDA r :
                       [out EXCEPT !.heap = r.heap, !.state = r.state,
                                   !.forks = r.forks,
                                   !.kind = IF r.result = <<"self">> THEN "self"
                                            ELSE "fork"])
             ELSE out))

\* one activation of run_pgymbo(prog, random_vars, optimizer, state, ...,
\* maxDepth, ...) up to its loop over newStates: kind is "return" when it
\* returns without stepping, "self" when symStep gave back the state itself,
\* and "fork" otherwise
PActivation(h, st0, cache, mSAT, mUNSAT, sd, table, maxDepth, order, g1, g2) ==
    LET pc == st0.pc
        is_target == is_target_pc(target_pcs, pc)
        must_solve == Len(st0.path_constraints) /= 0 /\ is_target
        is_done == InstrAt(pc).instr = "Done"
    IN  With(IF must_solve
             THEN solve_pconstraints(st0, cache, mSAT, mUNSAT, sd, order, use_dpll,
                                     random_vars)
             ELSE [is_sat |-> TRUE, state |-> st0, cache |-> cache, maxSAT |-> mSAT,
                   maxUNSAT |-> mUNSAT, seed |-> sd, known |-> TRUE], LAMBDA o :
        With([heap |-> h, state |-> o.state, forks |-> <<>>, cache |-> o.cache,
              maxSAT |-> o.maxSAT, maxUNSAT |-> o.maxUNSAT, seed |-> o.seed,
              table |-> IF is_done /\ Len(o.state.path_constraints) > 0
                        THEN update_prob_constraints_table(pc, o.state, table)
                        ELSE table,
              maxDepth |-> maxDepth, kind |-> "return"], LAMBDA out :
             IF is_done \/ ~o.is_sat THEN out
             ELSE IF explore_further(maxDepth, o.maxSAT, o.maxUNSAT)
             THEN With(symStep(h, o.state, InstrAt(pc), g1, g2), LAMBDA r :
                       [out EXCEPT !.heap = r.heap, !.state = r.state,
                                   !.forks = r.forks,
                                   !.kind = IF r.result = <<"self">> THEN "self"
                                            ELSE "fork"])
             ELSE out))

\* the activations of run_pgymbo from one entry on, through those whose only
\* new state is the state itself, as long as the next one has no choice to
\* make (an iteration order or the value of an unset field)
RECURSIVE PActivations(_, _, _, _, _, _, _, _, _, _, _)
PActivations(h, st0, cache, mSAT, mUNSAT, sd, table, maxDepth, order, g1, g2) ==
    With(PActivation(h, st0, cache, mSAT, mUNSAT, sd, table, maxDepth, order, g1, g2),
         LAMBDA r :
             IF /\ r.kind = "self"
                /\ PSolveOrders(r.state, r.cache, random_vars) = {<<>>}
                /\ PGarbageOf(r.heap, r.state) = {0}
             THEN PActivations(r.heap, r.state, r.cache, r.maxSAT, r.maxUNSAT, r.seed,
                               r.table, maxDepth - 1, <<>>, 0, 0)
             ELSE r)

\* run_pgymbo from its entry, through the activations that only step the
\* state itself, to the next fork, return or choice
PRunEnter ==
    /\ frames /= <<>>
    /\ Top.phase = "enter"
    /\ LET st0 == states[Top.state]
       IN  \E order \in PSolveOrders(st0, constraints_cache, random_vars) :
           \E g1, g2 \in PGarbageOf(heap, st0) :
             \E r \in {PActivations(heap, st0, constraints_cache, maxSAT, maxUNSAT, seed,
                                     prob_constraints_table, Top.maxDepth, order, g1, g2)} :
                 /\ constraints_cache' = r.cache
                 /\ maxSAT' = r.maxSAT
                 /\ maxUNSAT' = r.maxUNSAT
                 /\ seed' = r.seed
                 /\ prob_constraints_table' = r.table
                 /\ heap' = r.heap
                 /\ states' = [states EXCEPT ![Top.state] = r.state] \o r.forks
                 /\ frames' =
                       CASE r.kind = "return" -> PopFrame
                         [] r.kind = "self" ->
                               [frames EXCEPT ![Len(frames)].maxDepth = r.maxDepth - 1]
                         [] OTHER ->
                               [frames EXCEPT ![Len(frames)] =
                                   [@ EXCEPT !.phase = "loop", !.maxDepth = r.maxDepth,
                                             !.newStates =
                                                 [k \in 1..Len(r.forks) |->
                                                     Len(states) + k]]]
    /\ UNCHANGED <<prog, target_pcs, use_dpll, conf, solved, satVars, fork, random_vars,
                   unitVars>>

\* for (SymState *newState : newStates) run_pgymbo(..., *newState, ..., maxDepth - 1, ...)
PRunChild ==
    /\ frames /= <<>>
    /\ Top.phase = "loop"
    /\ Top.newStates /= <<>>
    /\ frames' = Append([frames EXCEPT ![Len(frames)].newStates = Tail(@)],
                        [state |-> Head(Top.newStates), maxDepth |-> Top.maxDepth - 1,
                         newStates |-> <<>>, phase |-> "enter"])
    /\ UNCHANGED <<prog, target_pcs, use_dpll, maxSAT, maxUNSAT, constraints_cache, seed,
                   heap, states, conf, solved, restVars>>

\* return Trace(state, children) once the loop is over
PRunReturn ==
    /\ frames /= <<>>
    /\ Top.phase = "loop"
    /\ Top.newStates = <<>>
    /\ frames' = PopFrame
    /\ UNCHANGED <<prog, target_pcs, use_dpll, maxSAT, maxUNSAT, constraints_cache, seed,
                   heap, states, conf, solved, restVars>>

\* test_workflow.cpp, GymboWorkflowTest.MontyHall; the tokenizer numbers the
\* variables in the order they first appear
car_door == 0

choice == 1

door_switch == 2

result == 3

host_door == 4

choice_updated == 5

EqN(l, r) == Bin("ND_EQ", l, r)

NeN(l, r) == Bin("ND_NE", l, r)

AndN(l, r) == Bin("ND_AND", l, r)

\* { lhs = val; }
SetTo(v, val) == Block(<<Assign(LVar(v), Num(val))>>)

MontyHallCode ==
    << If(EqN(LVar(car_door), LVar(choice)),
          Block(<< If(EqN(LVar(door_switch), Num(1)), SetTo(result, 0), SetTo(result, 1)),
                   Return(LVar(result)) >>),
          NullNode),
       If(AndN(NeN(LVar(choice), Num(1)), NeN(LVar(car_door), Num(1))),
          SetTo(host_door, 1),
          Block(<< If(AndN(NeN(LVar(choice), Num(2)), NeN(LVar(car_door), Num(2))),
                      SetTo(host_door, 2), SetTo(host_door, 3)) >>)),
       If(EqN(LVar(door_switch), Num(1)),
          Block(<< If(EqN(LVar(host_door), Num(1)),
                      Block(<< If(EqN(LVar(choice), Num(2)),
                                  SetTo(choice_updated, 3), SetTo(choice_updated, 2)) >>),
                      Block(<< If(EqN(LVar(host_door), Num(2)),
                                  Block(<< If(EqN(LVar(choice), Num(1)),
                                              SetTo(choice_updated, 3),
                                              SetTo(choice_updated, 1)) >>),
                                  Block(<< If(EqN(LVar(choice), Num(1)),
                                              SetTo(choice_updated, 2),
                                              SetTo(choice_updated, 1)) >>)) >>)) >>),
          Block(<< Assign(LVar(choice_updated), LVar(choice)) >>)),
       If(EqN(LVar(choice_updated), LVar(car_door)), SetTo(result, 1), SetTo(result, 0)),
       NullNode >>

\* var2dist of the test: car_door and choice uniform on 1..3
MontyVar2dist ==
    [v \in {car_door, choice} |-> DiscreteUniformDist(1, 3)]

\* the run of the test for one value of door_switch
InitProb ==
    /\ \E ds \in {0, 1} :
          /\ states = <<InitSymState(set_concrete_val(EmptyMap, door_switch, ds))>>
          /\ conf = [program |-> "MontyHall", maxSAT |-> max_depth, maxUNSAT |-> max_depth,
                     maxDepth |-> max_depth, door_switch |-> ds]
    /\ prog = compile_ast(MontyHallCode)
    /\ maxSAT = max_depth
    /\ maxUNSAT = max_depth
    /\ frames = <<[state |-> 1, maxDepth |-> max_depth, newStates |-> <<>>,
                   phase |-> "enter"]>>
    /\ use_dpll = FALSE
    /\ target_pcs = {}
    /\ constraints_cache = EmptyMap
    /\ solved = EmptyMap
    /\ seed = InitialSeed
    /\ heap = <<>>
    /\ random_vars = register_random_var(register_random_var({}, car_door), choice)
    /\ prob_constraints_table = EmptyMap
    /\ SatIdle
    /\ ForkIdle
    /\ UnitIdle

NextProb == PRunEnter \/ PRunChild \/ PRunReturn

SpecProb == InitProb /\ [][NextProb]_vars

\* tmp_assign of marginalize for the combination D[i]: the j-th variable of
\* var2dist gets D[i][j]
TmpAssign(var_order, Di) ==
    [v \in {var_order[j] : j \in DOMAIN var_order} |->
        Di[CHOOSE j \in DOMAIN var_order : var_order[j] = v]]

\* one of the two sums SymProb::marginalize builds
RECURSIVE MarginalSum(_, _, _, _)
MarginalSum(sym, var_order, D, i) ==
    IF i = 0 THEN SymCon(FloatToWord(0))
    ELSE SymBin("SAdd", MarginalSum(sym, var_order, D, i - 1),
                SymCnt(sym, TmpAssign(var_order, D[i])))

\* marginalize that leaves the last combination of D out of both sums
marginalizeDropLast(p, var_order, D) ==
    [q_numerator |-> MarginalSum(p.numerator, var_order, D, Len(D) - 1),
     q_denominator |-> MarginalSum(p.denominator, var_order, D, Len(D) - 1)]

\* SymProb::marginalize(var2dist, D)
marginalize(p, var_order, D) ==
    [q_numerator |-> MarginalSum(p.numerator, var_order, D, Len(D)),
     q_denominator |-> MarginalSum(p.denominator, var_order, D, Len(D))]

\* fractions n/d in lowest terms, d > 0
RECURSIVE GCD(_, _)
GCD(a, b) == IF b = 0 THEN a ELSE GCD(b, a % b)

Frac(n, d) == LET g == GCD(Abs(n), d) IN [n |-> n \div g, d |-> d \div g]

FracAdd(a, b) == Frac(a.n * b.d + b.n * a.d, a.d * b.d)

\* SymProb::eval(params, eps, var2dist, D): v_n / v_d, or 0 when v_d is 0
SymProbEval(p, params, var_order, D) ==
    LET mq == marginalize(p, var_order, D)
        v_n == aeval(mq.q_numerator, params, eps)
        v_d == aeval(mq.q_denominator, params, eps)
    IN  IF v_d = 0 THEN Frac(0, 1) ELSE Frac(v_n, v_d)

\* std::get<1>(ccv)[var]: the value, or 0 for an address that is not set
MemAt(mem, a) == IF a \in DOMAIN mem THEN mem[a] ELSE 0

\* p * wordToFloat(mem[result]) of one entry of the table
EntryValue(e, var_order, D) ==
    LET pv == SymProbEval(e.p, EmptyMap, var_order, D)
        w == wordToFloat(MemAt(e.mem, result))
    IN  Frac(pv.n * w, pv.d)

\* the sum of a sequence of fractions, by halves
RECURSIVE SumFracs(_)
SumFracs(fs) ==
    IF Len(fs) = 0 THEN Frac(0, 1)
    ELSE IF Len(fs) = 1 THEN fs[1]
    ELSE FracAdd(SumFracs(SubSeq(fs, 1, Len(fs) \div 2)),
                 SumFracs(SubSeq(fs, (Len(fs) \div 2) + 1, Len(fs))))

\* expected_value += p * wordToFloat(mem[result]) over the entries of one pc
SumEntries(es, var_order, D) ==
    SumFracs([k \in DOMAIN es |-> EntryValue(es[k], var_order, D)])

RECURSIVE SumTable(_, _, _, _)
SumTable(table, pcs, var_order, D) ==
    IF pcs = <<>> THEN Frac(0, 1)
    ELSE FracAdd(SumEntries(table[Head(pcs)], var_order, D),
                 SumTable(table, Tail(pcs), var_order, D))

\* expected_value as the test accumulates it over prob_constraints_table
ExpectedValue ==
    LET var_order == KeySeq(DOMAIN MontyVar2dist)
        D == cartesianProduct([j \in DOMAIN var_order |-> MontyVar2dist[var_order[j]]])
    IN  SumTable(prob_constraints_table, KeySeq(DOMAIN prob_constraints_table),
                 var_order, D)

MontyRun == conf.program = "MontyHall" /\ random_vars = {car_door, choice}

\* C6: for the Monty Hall program with car_door and choice uniform on 1..3, the
\* table of Done states gives result the expected value 1/3 when door_switch
\* is 0 and 2/3 when door_switch is 1
C6_MontyHallExpectedValue ==
    (MontyRun /\ Done) =>
        /\ conf.door_switch = 0 => ExpectedValue = Frac(1, 3)
        /\ conf.door_switch = 1 => ExpectedValue = Frac(2, 3)

\* the run with door_switch = 1 has ended with final states of both values of
\* result in its table
C6_Witness ==
    /\ MontyRun /\ Done /\ conf.door_switch = 1
    /\ \E pc1, pc2 \in DOMAIN prob_constraints_table :
          /\ \E k \in DOMAIN prob_constraints_table[pc1] :
                wordToFloat(MemAt(prob_constraints_table[pc1][k].mem, result)) = 1
          /\ \E k \in DOMAIN prob_constraints_table[pc2] :
                wordToFloat(MemAt(prob_constraints_table[pc2][k].mem, result)) = 0


(***************************************************************************)
(* Budgets and depth of SExecutor::run                                     *)
(***************************************************************************)

\* the state is satisfiable as far as run knows when it tests explore_further
KnownSat(st) ==
    \/ st.path_constraints = <<>>
    \/ /\ StateToString(st) \in DOMAIN constraints_cache
       /\ constraints_cache[StateToString(st)].is_sat

\* C11: once maxSAT or maxUNSAT is zero (or below), no step of the run changes
\* a state or the stack nodes any more; and an activation of run that finds
\* maxSAT or maxUNSAT at zero after its solve, or its maxDepth at zero, steps
\* nothing and returns (its state is a leaf)
C11_NoStepOnceExhausted ==
    [][ /\ (maxSAT <= 0 \/ maxUNSAT <= 0) => (states' = states /\ heap' = heap)
        /\ ( /\ frames /= <<>>
             /\ Top.phase = "enter"
             /\ (maxSAT' <= 0 \/ maxUNSAT' <= 0 \/ Top.maxDepth <= 0) )
           => (states' = states /\ heap' = heap /\ frames' = PopFrame) ]_vars

\* a run has ended with maxSAT used up and has left, as a leaf, a satisfiable
\* state that is not at Done and was not stepped after its creation by JmpIf
C11_Witness ==
    /\ Done
    /\ maxSAT <= 0
    /\ conf.maxDepth = max_depth
    /\ \E i \in DOMAIN states :
          /\ states[i].path_constraints /= <<>>
          /\ KnownSat(states[i])
          /\ InstrAt(states[i].pc).instr \notin {"Done", "JmpIf"}

\* the stacks of activations a step of run can leave behind: the activation
\* on top returns, or calls run on the next of its newStates, or has stepped
\* its state and starts its loop over the newStates symStep gave it
FramesAfterStep ==
    {PopFrame}
    \cup {Append([frames EXCEPT ![Len(frames)].newStates = Tail(@)],
                 [state |-> Head(Top.newStates), maxDepth |-> Top.maxDepth - 1,
                  newStates |-> <<>>, phase |-> "enter"]) : x \in {1} \cap DOMAIN Top.newStates}
    \cup {[frames EXCEPT ![Len(frames)] = [@ EXCEPT !.phase = "loop", !.newStates = ns]] :
             ns \in {<<>>, <<Top.state>>, <<Len(states) + 1, Len(states) + 2>>}}

\* the program is running: the stack of activations changes
Advance == frames /= <<>> /\ frames' \in FramesAfterStep

\* run on a processor that keeps executing it: while an activation of run is
\* left, the stack of activations goes on changing (every such change is a
\* step of Next)
SpecLive == Init /\ [][Next]_vars /\ WF_frames(Advance)

\* C12: every run ends, and no state is reached by more than maxDepth calls of
\* symStep from the initial state
C12_RunTerminatesWithinDepth ==
    /\ <>Done
    /\ [](\A i \in DOMAIN states : states[i].steps <= conf.maxDepth)

\* the run of the program that loops for ever has ended, at its maxDepth
C12_Witness ==
    /\ Done
    /\ conf.program = "Loop"
    /\ conf.maxDepth > 0
    /\ \E i \in DOMAIN states : states[i].steps = conf.maxDepth


(***************************************************************************)
(* Functions of the library called on their own                            *)
(***************************************************************************)

\* the largest number written in the programs compiled
MaxNum == 3

\* the operands of the conditions: the variables a and b, and small numbers
Operands == {LVar(0), LVar(1)} \cup {Num(v) : v \in 0..MaxNum}

\* the conditions: comparisons as relational() and equality() build them
Conds == {Bin(k, l, r) : k \in {"ND_EQ", "ND_NE", "ND_LT", "ND_LE"}, l, r \in Operands}

\* the statements under the if
Thens ==
    { Return(Num(1)),
      Assign(LVar(0), Num(1)),
      Block(<<Assign(LVar(1), Bin("ND_ADD", LVar(0), Num(1))), Return(Num(0))>>),
      If(Bin("ND_EQ", LVar(1), Num(2)), Return(Num(1)), NullNode),
      If(Bin("ND_AND", Bin("ND_LT", LVar(0), Num(1)), Bin("ND_LT", LVar(1), Num(1))),
         Assign(LVar(0), Num(2)), Return(Num(3))) }

\* test_compiler.cpp: if (a > 3) return 1;
PipelineCode == <<If(Gt(LVar(0), Num(3)), Return(Num(1)), NullNode), NullNode>>

\* compile_ast(code, prg) on the statement list of `if (c) T`
CompileCalls ==
    {[fn |-> "compile_ast", code |-> <<If(c, t, NullNode), NullNode>>] :
        c \in Conds, t \in Thens}

\* the variables the expressions handed to cnf are built from
CnfVars == {Var(VarNames[i]) : i \in 1..NumSatVars}

\* expressions over Var, And, Or, Not: all of depth two, those one Not or one
\* Or with a variable deeper, and the example of the DPLL test
CnfInputs ==
    Grow(Grow(CnfVars))
    \cup {Not(e) : e \in Grow(Grow(CnfVars))}
    \cup {Or(v, e) : v \in CnfVars, e \in Grow(Grow(CnfVars))}
    \cup {Or(e, v) : v \in CnfVars, e \in Grow(Grow(CnfVars))}
    \cup {DpllExample}

\* cnf(expr)
CnfCalls == {[fn |-> "cnf", expr |-> e] : e \in CnfInputs}

\* SymProb::eval called as TEST(GymboTypeTest, SymProbSimple) calls it:
\* predicates over var_0 and var_1, both uniform on 1..high, high up to
\* MaxSupport
MaxSupport == 2

MaxProbVal == 3

ProbAtoms ==
    {SymBin("SEq", SymAny(v), SymCon(FloatToWord(c))) : v \in 0..1, c \in 1..MaxProbVal}
        \cup {SymBin("SLt", SymAny(0), SymAny(1)), SymBin("SLe", SymAny(1), SymAny(0))}

ProbLiterals == ProbAtoms \cup {SymUn("SNot", a) : a \in ProbAtoms}

ProbPreds ==
    ProbLiterals \cup {SymBin(t, a, b) : t \in {"SAnd", "SOr"}, a, b \in ProbAtoms}

\* the order in which var2dist is iterated, and D enumerated in that order
ProbEvalCalls ==
    {[fn |-> "SymProb::eval", p |-> SymProbNew(n, d), params |-> EmptyMap,
      var_order |-> vo,
      D |-> cartesianProduct([j \in DOMAIN vo |-> DiscreteUniformDist(1, high)])] :
        n \in ProbPreds, d \in ProbLiterals, vo \in {<<0, 1>>, <<1, 0>>},
        high \in 2..MaxSupport}

\* Sym::eval and Sym::aeval called on SCnt(phi, assign) with a context ctx,
\* the variables of phi bound by ctx or by assign
CntPreds ==
    ProbLiterals \cup
        {SymBin(t, SymBin("SEq", SymAny(0), SymCon(FloatToWord(c))),
                   SymBin("SEq", SymAny(1), SymCon(FloatToWord(d)))) :
            t \in {"SAnd", "SOr"}, c, d \in 1..MaxSupport}

Bindings == UNION {[vs -> 1..MaxSupport] : vs \in SUBSET {0, 1}}

CoveringContexts(a) == {c \in Bindings : {0, 1} \subseteq (DOMAIN c) \cup (DOMAIN a)}

CntEvalCalls ==
    UNION {{[fn |-> f, sym |-> SymCnt(phi, a), cvals |-> ctx] :
               f \in {"Sym::eval", "Sym::aeval"}, phi \in CntPreds,
               ctx \in CoveringContexts(a)} : a \in Bindings \ {EmptyMap}}

\* GDOptimizer::solve called as TEST(GymboGDTest, Count) calls it, on the
\* single constraint SCnt(var_0 == 3) + SCnt(var_1 == 7) == k
CountCond(k) ==
    SymBin("SEq",
           SymBin("SAdd",
                  SymUn("SCnt", SymBin("SEq", SymAny(0), SymCon(FloatToWord(3)))),
                  SymUn("SCnt", SymBin("SEq", SymAny(1), SymCon(FloatToWord(7))))),
           SymCon(FloatToWord(k)))

MaxCountSeeds == 40

\* params as initialize_params leaves them for the memory of the state:
\* empty in the test, or holding the values of var_0 and var_1
CountParams ==
    {EmptyMap} \cup {[v \in {0, 1} |-> IF v = 0 THEN a ELSE b] : a \in 2..4, b \in 6..8}
        \cup {MapPut(EmptyMap, 0, a) : a \in 2..4}

GDSolveCalls ==
    {[fn |-> "GDOptimizer::solve", k |-> k, path_constraints |-> <<CountCond(k)>>,
      params |-> ps, seed |-> sd, order |-> ord] :
        k \in 0..2, ps \in CountParams,
        sd \in InitialSeed..(InitialSeed + MaxCountSeeds - 1),
        ord \in {<<0, 1>>, <<1, 0>>}}

\* the constraint lists the solvers are called with on their own: none, one
\* equality, a contradiction, an inequality between two variables, and a
\* pair over two variables
SolverConstraints ==
    {<<>>,
     <<SymBin("SEq", SymAny(0), SymCon(FloatToWord(1)))>>,
     <<SymBin("SEq", SymAny(0), SymCon(FloatToWord(1))),
       SymUn("SNot", SymBin("SEq", SymAny(0), SymCon(FloatToWord(1))))>>,
     <<SymUn("SNot", SymBin("SEq", SymAny(0), SymAny(1)))>>,
     <<SymBin("SLt", SymAny(0), SymCon(FloatToWord(1))),
       SymBin("SEq", SymAny(1), SymCon(FloatToWord(2)))>>}

\* state.mem: empty, or var_1 concrete
SolverMems == {EmptyMap, MapPut(EmptyMap, 1, FloatToWord(3))}

\* smt_union_solver(is_sat, state, params, optimizer, max_num_trials,
\* ignore_memory) called as SExecutor::solve calls it
UnionSolverCalls ==
    {[fn |-> "smt_union_solver", path_constraints |-> pcs, mem |-> mem,
      params |-> initialize_params(mem), seed |-> sd, order |-> ord] :
        pcs \in SolverConstraints, mem \in SolverMems,
        sd \in InitialSeed..(InitialSeed + MaxCountSeeds - 1),
        ord \in {<<0, 1>>, <<1, 0>>}}

Calls == CompileCalls \cup CnfCalls \cup ProbEvalCalls \cup CntEvalCalls \cup GDSolveCalls \cup UnionSolverCalls

InitCalls ==
    /\ call \in Calls
    /\ ret = [called |-> FALSE]
    /\ list = [l |-> EmptyList, pushed |-> <<>>, pushes |-> 0, pops |-> 0]
    /\ ExecIdle
    /\ SatIdle
    /\ ForkIdle
    /\ ProbIdle

\* compile_ast(code, prg) with an empty prg
CompileCall ==
    /\ call.fn = "compile_ast"
    /\ ~ret.called
    /\ ret' = [called |-> TRUE, value |-> compile_ast(call.code)]
    /\ UNCHANGED <<call, list, execVars, satVars, fork, probVars>>

\* cnf(expr)
CnfCall ==
    /\ call.fn = "cnf"
    /\ ~ret.called
    /\ ret' = [called |-> TRUE, value |-> cnf(call.expr)]
    /\ UNCHANGED <<call, list, execVars, satVars, fork, probVars>>

\* prob.eval(params, eps, var2dist, D)
ProbEvalCall ==
    /\ call.fn = "SymProb::eval"
    /\ ~ret.called
    /\ ret' = [called |-> TRUE,
               value |-> SymProbEval(call.p, call.params, call.var_order, call.D)]
    /\ UNCHANGED <<call, list, execVars, satVars, fork, probVars>>

\* sym.eval(cvals, eps): cvals.at throws std::out_of_range for a variable
\* that cvals does not bind
SymEvalCall ==
    /\ call.fn = "Sym::eval"
    /\ ~ret.called
    /\ ret' = IF EvalReads(call.sym) \subseteq DOMAIN call.cvals
              THEN [called |-> TRUE, threw |-> FALSE,
                    value |-> eval(call.sym, call.cvals, eps)]
              ELSE [called |-> TRUE, threw |-> TRUE]
    /\ UNCHANGED <<call, list, execVars, satVars, fork, probVars>>

\* sym.aeval(cvals, eps)
SymAevalCall ==
    /\ call.fn = "Sym::aeval"
    /\ ~ret.called
    /\ ret' = IF EvalReads(call.sym) \subseteq (DOMAIN call.cvals) \cup (DOMAIN call.sym.assign)
              THEN [called |-> TRUE, threw |-> FALSE,
                    value |-> aeval(call.sym, call.cvals, eps)]
              ELSE [called |-> TRUE, threw |-> TRUE]
    /\ UNCHANGED <<call, list, execVars, satVars, fork, probVars>>

\* is_sat = optimizer.solve(state.path_constraints, params)
GDSolveCall ==
    /\ call.fn = "GDOptimizer::solve"
    /\ ~ret.called
    /\ ret' = [called |-> TRUE,
               value |-> GDsolve(call.path_constraints, call.params, call.seed, call.order)]
    /\ UNCHANGED <<call, list, execVars, satVars, fork, probVars>>

\* smt_union_solver(is_sat, state, params, optimizer, ...) with is_sat = true
UnionSolverCall ==
    /\ call.fn = "smt_union_solver"
    /\ ~ret.called
    /\ ret' = [called |-> TRUE,
               value |-> smt_union_solver(TRUE, call.path_constraints, call.mem,
                                          call.params, call.seed, call.order)]
    /\ UNCHANGED <<call, list, execVars, satVars, fork, probVars>>

NextCalls == CompileCall \/ CnfCall \/ ProbEvalCall \/ SymEvalCall \/ SymAevalCall \/ GDSolveCall \/ UnionSolverCall

SpecCalls == InitCalls /\ [][NextCalls]_vars

\* the InstrTypes of a program
InstrTypes(prg) == [i \in DOMAIN prg |-> prg[i].instr]

\* C13: the program of `if (c) T` is the code of c, Push, Swap, JmpIf, Nop,
\* Push, Jmp, the code of T, and the Done that ends the program; for
\* `if (a > 3) return 1;` these are the 12 instructions of the test
C13_IfWithoutElseCode ==
    (call.fn = "compile_ast" /\ ret.called) =>
        /\ InstrTypes(ret.value) =
              InstrTypes(gen(call.code[1].cond))
              \o <<"Push", "Swap", "JmpIf", "Nop", "Push", "Jmp">>
              \o InstrTypes(gen(call.code[1].then))
              \o <<"Done">>
        /\ call.code = PipelineCode =>
              InstrTypes(ret.value) =
                 <<"Push", "Push", "Load", "Lt", "Push", "Swap", "JmpIf", "Nop", "Push",
                   "Jmp", "Done", "Done">>

\* `if (a > 3) return 1;` has been compiled, to 12 instructions
C13_Witness ==
    /\ call.fn = "compile_ast"
    /\ call.code = PipelineCode
    /\ ret.called
    /\ Len(ret.value) = 12

\* a variable or the negation of a variable
IsLiteral(e) == e.opcode = "VAR" \/ (e.opcode = "NOT" /\ e.expr.opcode = "VAR")

\* a disjunction of literals
RECURSIVE IsDisjunction(_)
IsDisjunction(e) ==
    \/ IsLiteral(e)
    \/ e.opcode = "OR" /\ IsDisjunction(e.left) /\ IsDisjunction(e.right)

\* C14: cnf returns, and every element of clauses() of its result is a
\* disjunction of literals
C14_CnfClausesAreDisjunctions ==
    (call.fn = "cnf" /\ ret.called) =>
        \A i \in DOMAIN clauses(ret.value) : IsDisjunction(clauses(ret.value)[i])

\* cnf has rewritten a disjunction into several clauses
C14_Witness ==
    /\ call.fn = "cnf"
    /\ ret.called
    /\ call.expr.opcode = "OR"
    /\ ret.value /= call.expr
    /\ Len(clauses(ret.value)) >= 2

(***************************************************************************)
(* The probability carried by a state (psymbolic.h)                        *)
(***************************************************************************)

\* pbranch has been invoked on the state for the path constraints it has now:
\* they mention a random variable and have been entered into the cache
PBranched(st) ==
    /\ st.path_constraints /= <<>>
    /\ UnionVarIds(st.path_constraints) \cap random_vars /= {}
    /\ StateToString(st) \in DOMAIN constraints_cache

\* the ratio of the conjunction of all of pcs to the constant 1
JointOverOne(pcs) == SymProbNew(AndChain(pcs, Len(pcs)), SymCon(FloatToWord(1)))

\* C15: with every pc a target, a state on which pbranch has been invoked
\* for its path constraints C1..Ck carries p = (C1 && ... && Ck) / 1, and so
\* does every final state entered into the table
C15_ProbabilityTelescopes ==
    /\ \A i \in DOMAIN states :
          PBranched(states[i]) => states[i].p = JointOverOne(states[i].path_constraints)
    /\ \A pc \in DOMAIN prob_constraints_table :
          \A k \in DOMAIN prob_constraints_table[pc] :
             gather_var_ids(prob_constraints_table[pc][k].cc) \cap random_vars /= {}
                => prob_constraints_table[pc][k].p =
                      SymProbNew(prob_constraints_table[pc][k].cc, SymCon(FloatToWord(1)))

\* a final state with at least three path constraints, so that two
\* conditional factors have been multiplied in, is in the table
C15_Witness ==
    /\ Done
    /\ \E pc \in DOMAIN prob_constraints_table :
          \E k \in DOMAIN prob_constraints_table[pc] :
             /\ prob_constraints_table[pc][k].cc.symtype = "SAnd"
             /\ prob_constraints_table[pc][k].cc.left.symtype = "SAnd"
             /\ prob_constraints_table[pc][k].cc.left.left.symtype = "SAnd"
             /\ gather_var_ids(prob_constraints_table[pc][k].cc) \cap random_vars /= {}

\* the value of a term under an assignment of its variables
RECURSIVE TermValue(_, _)
TermValue(t, env) ==
    CASE t.symtype = "SCon" -> wordToFloat(t.word)
      [] t.symtype = "SAny" -> env[t.var_idx]
      [] OTHER -> ArithOp(t.symtype, TermValue(t.left, env), TermValue(t.right, env))

\* whether a predicate is true under an assignment of its variables
RECURSIVE PredHolds(_, _)
PredHolds(f, env) ==
    CASE f.symtype = "SEq" -> TermValue(f.left, env) = TermValue(f.right, env)
      [] f.symtype = "SLt" -> TermValue(f.left, env) < TermValue(f.right, env)
      [] f.symtype = "SLe" -> TermValue(f.left, env) <= TermValue(f.right, env)
      [] f.symtype = "SAnd" -> PredHolds(f.left, env) /\ PredHolds(f.right, env)
      [] f.symtype = "SOr" -> PredHolds(f.left, env) \/ PredHolds(f.right, env)
      [] OTHER -> ~PredHolds(f.left, env)

\* the number of combinations of D that satisfy f
CountSatisfying(f, var_order, D) ==
    Cardinality({i \in DOMAIN D : PredHolds(f, TmpAssign(var_order, D[i]))})

\* C16: SymProb(N, D).eval over the full enumeration of uniform supports is
\* (combinations satisfying N) / (combinations satisfying D), and 0 when no
\* combination satisfies D; the test's N and D give 1/2
C16_EvalIsRatioOfCounts ==
    (call.fn = "SymProb::eval" /\ ret.called) =>
        LET cn == CountSatisfying(call.p.numerator, call.var_order, call.D)
            cd == CountSatisfying(call.p.denominator, call.var_order, call.D)
        IN  /\ ret.value = (IF cd = 0 THEN Frac(0, 1) ELSE Frac(cn, cd))
            /\ ( /\ call.p.numerator =
                       SymBin("SAnd", SymBin("SEq", SymAny(1), SymCon(FloatToWord(2))),
                              SymBin("SEq", SymAny(0), SymCon(FloatToWord(1))))
                 /\ call.p.denominator = SymBin("SEq", SymAny(0), SymCon(FloatToWord(1)))
                 /\ call.D = cartesianProduct(<<DiscreteUniformDist(1, 2),
                                                DiscreteUniformDist(1, 2)>>) )
               => ret.value = Frac(1, 2)

\* the call of the test has returned
C16_Witness ==
    /\ call.fn = "SymProb::eval"
    /\ ret.called
    /\ call.p.numerator =
          SymBin("SAnd", SymBin("SEq", SymAny(1), SymCon(FloatToWord(2))),
                 SymBin("SEq", SymAny(0), SymCon(FloatToWord(1))))
    /\ call.p.denominator = SymBin("SEq", SymAny(0), SymCon(FloatToWord(1)))
    /\ ret.value = Frac(1, 2)

\* ctx extended with assign, the values of assign used for what it binds
AssignOverContext(ctx, assign) ==
    [x \in (DOMAIN ctx) \cup (DOMAIN assign) |->
        IF x \in DOMAIN assign THEN assign[x] ELSE ctx[x]]

\* assign extended with ctx, the values of ctx used for what it binds
ContextOverAssign(ctx, assign) ==
    [x \in (DOMAIN ctx) \cup (DOMAIN assign) |->
        IF x \in DOMAIN ctx THEN ctx[x] ELSE assign[x]]

Indicator(b) == IF b THEN 1 ELSE 0

\* C17: SCnt(phi, assign).eval(ctx, eps), the variables of phi covered by
\* ctx and assign together, returns 1 if phi evaluates to <= 0 under ctx
\* extended with assign (the values of assign used for what it binds), else 0
C17_CntEvalUsesAssign ==
    (call.fn = "Sym::eval" /\ ret.called) =>
        /\ ~ret.threw
        /\ ret.value =
              Indicator(eval(call.sym.left,
                             AssignOverContext(call.cvals, call.sym.assign), eps) <= 0)

\* C17 as the code has it: eval never reads assign, so it returns the
\* indicator of phi under ctx alone and throws when ctx does not bind a
\* variable of phi; aeval reads assign, and returns the indicator of phi
\* under assign extended with ctx, the values of ctx used for what it binds
C17_CntEvalAsCoded ==
    /\ (call.fn = "Sym::eval" /\ ret.called) =>
          IF EvalReads(call.sym.left) \subseteq DOMAIN call.cvals
          THEN ~ret.threw /\ ret.value = Indicator(eval(call.sym.left, call.cvals, eps) <= 0)
          ELSE ret.threw
    /\ (call.fn = "Sym::aeval" /\ ret.called) =>
          /\ ~ret.threw
          /\ ret.value =
                Indicator(eval(call.sym.left,
                               ContextOverAssign(call.cvals, call.sym.assign), eps) <= 0)

\* aeval has returned for a phi that is true under assign and false under the
\* value ctx binds to the same variable
C17_Witness ==
    /\ call.fn = "Sym::aeval"
    /\ ret.called
    /\ \E x \in (DOMAIN call.cvals) \cap (DOMAIN call.sym.assign) :
          call.cvals[x] /= call.sym.assign[x]
    /\ eval(call.sym.left, AssignOverContext(call.cvals, call.sym.assign), eps) <= 0
    /\ ret.value = 0

\* C18: whenever GDOptimizer::solve returns true for the single constraint
\* SCnt(x0 == 3) + SCnt(x1 == 7) == k, exactly k of the two equalities hold
\* under the params it returns
C18_SolveCountsEqualities ==
    (call.fn = "GDOptimizer::solve" /\ ret.called /\ ret.value.is_sat) =>
        /\ {0, 1} \subseteq DOMAIN ret.value.params
        /\ Indicator(ret.value.params[0] = 3) + Indicator(ret.value.params[1] = 7) = call.k

\* solve has returned true for k = 1 after at least one pass of its loop, the
\* params drawn by it
C18_Witness ==
    /\ call.fn = "GDOptimizer::solve"
    /\ ret.called
    /\ call.k = 1
    /\ call.params = EmptyMap
    /\ ret.value.is_sat
    /\ ret.value.itr > 0
    /\ (ret.value.params[0] = 3) /= (ret.value.params[1] = 7)


(***************************************************************************)
(* A Linkedlist<int> used on its own (test_utils.cpp)                      *)
(***************************************************************************)

MaxPushes == 5

MaxData == 2

\* Linkedlist<int> list; with the history of what was pushed and not popped
\* since, and of the numbers of pushes and pops
InitList ==
    /\ prog = <<>> /\ target_pcs = {} /\ use_dpll = FALSE /\ maxSAT = 0 /\ maxUNSAT = 0
    /\ constraints_cache = EmptyMap /\ seed = InitialSeed /\ heap = <<>>
    /\ states = <<>> /\ frames = <<>> /\ solved = EmptyMap
    /\ conf = [program |-> "none", maxSAT |-> 0, maxUNSAT |-> 0, maxDepth |-> 0]
    /\ SatIdle
    /\ ForkIdle
    /\ ProbIdle
    /\ UnitIdle

\* list.push(data)
ListPush ==
    /\ list.pushes < MaxPushes
    /\ \E data \in 1..MaxData :
          /\ heap' = LLpush(heap, list.l, data).heap
          /\ list' = [l |-> LLpush(heap, list.l, data).list,
                      pushed |-> Append(list.pushed, data),
                      pushes |-> list.pushes + 1, pops |-> list.pops]
    /\ UNCHANGED <<prog, target_pcs, use_dpll, maxSAT, maxUNSAT, constraints_cache, seed,
                   states, frames, conf, solved, satVars, fork, probVars, call, ret>>

\* list.pop(), applied only to a list that holds an element
ListPop ==
    /\ list.pushed /= <<>>
    /\ heap' = LLpop(heap, list.l).heap
    /\ list' = [l |-> LLpop(heap, list.l).list,
                pushed |-> SubSeq(list.pushed, 1, Len(list.pushed) - 1),
                pushes |-> list.pushes, pops |-> list.pops + 1]
    /\ UNCHANGED <<prog, target_pcs, use_dpll, maxSAT, maxUNSAT, constraints_cache, seed,
                   states, frames, conf, solved, satVars, fork, probVars, call, ret>>

NextList == ListPush \/ ListPop

SpecList == InitList /\ [][NextList]_vars

\* C19: after any pushes and pops, pop never applied to an empty list,
\* back() returns the most recently pushed element not yet popped
C19_BackIsLastUnpopped ==
    list.pushed /= <<>> =>
        /\ list.l.tail /= NULL
        /\ LLback(heap, list.l) = list.pushed[Len(list.pushed)]

\* back() is an element pushed before two pops and a later push and pop
C19_Witness ==
    /\ list.pushes >= 4
    /\ list.pops >= 3
    /\ Len(list.pushed) >= 2
    /\ list.pushed[1] /= list.pushed[2]
    /\ LLback(heap, list.l) = list.pushed[Len(list.pushed)]

\* C20: after any pushes and pops, pop never applied to an empty list,
\* len() equals the number of pushes minus the number of pops
C20_LenIsPushesMinusPops == LLlen(heap, list.l) = list.pushes - list.pops


(***************************************************************************)
(* tokenize (tokenizer.h): the text is a sequence of characters            *)
(***************************************************************************)

AlphaChars ==
    {"a", "b", "c", "d", "e", "f", "g", "h", "i", "j", "k", "l", "m", "n", "o", "p", "q",
     "r", "s", "t", "u", "v", "w", "x", "y", "z", "A", "B", "C", "D", "E", "F", "G", "H",
     "I", "J", "K", "L", "M", "N", "O", "P", "Q", "R", "S", "T", "U", "V", "W", "X", "Y",
     "Z", "_"}

DigitChars == {"0", "1", "2", "3", "4", "5", "6", "7", "8", "9"}

\* is_alpha(c)
is_alpha(c) == c \in AlphaChars

\* is_alnum(c)
is_alnum(c) == is_alpha(c) \/ c \in DigitChars

\* p[k] of the NUL-terminated text
CharAt(text, k) == IF k \in DOMAIN text THEN text[k] ELSE "NUL"

\* startswith(p, q) and strncmp(p, q, n) == 0 for a q without NUL
startswith(text, p, q) == \A k \in DOMAIN q : CharAt(text, p + k - 1) = q[k]

\* the end of the run of digits that starts at k
RECURSIVE DigitsEnd(_, _)
DigitsEnd(text, k) ==
    IF CharAt(text, k) \in DigitChars THEN DigitsEnd(text, k + 1) ELSE k

\* strtof(p, &p) on a decimal literal: digits, a fraction, and an exponent
\* when digits follow its e (the texts used hold no hexadecimal literal)
StrtofEnd(text, p) ==
    LET i == DigitsEnd(text, p)
        f == IF CharAt(text, i) = "." THEN DigitsEnd(text, i + 1) ELSE i
        s == IF CharAt(text, f) \in {"e", "E"}
             THEN (IF CharAt(text, f + 1) \in {"+", "-"} THEN f + 2 ELSE f + 1)
             ELSE f
    IN  IF s > f /\ CharAt(text, s) \in DigitChars THEN DigitsEnd(text, s) ELSE f

\* the end of the run of is_alnum characters that starts at k
RECURSIVE AlnumEnd(_, _)
AlnumEnd(text, k) == IF is_alnum(CharAt(text, k)) THEN AlnumEnd(text, k + 1) ELSE k

\* new_token(kind, cur, str, len): calloc leaves var_id 0
new_token(kind, text, p, len) ==
    [kind |-> kind, str |-> SubSeq(text, p, p + len - 1), var_id |-> 0]

\* an emplace that numbers the names from 1
CountVarFromOne(var_counter, name) ==
    IF name \in DOMAIN var_counter THEN var_counter
    ELSE [x \in (DOMAIN var_counter) \cup {name} |->
             IF x = name THEN Cardinality(DOMAIN var_counter) + 1 ELSE var_counter[x]]

\* var_counter.emplace(name, (int)var_counter.size()) for a name without id
CountVar(var_counter, name) ==
    IF name \in DOMAIN var_counter THEN var_counter
    ELSE [x \in (DOMAIN var_counter) \cup {name} |->
             IF x = name THEN Cardinality(DOMAIN var_counter) ELSE var_counter[x]]

\* the while loop of tokenize from the character at p on
RECURSIVE tokenizeFrom(_, _, _, _)
tokenizeFrom(text, p, toks, var_counter) ==
    IF p > Len(text)
    THEN [error |-> FALSE, tokens |-> Append(toks, new_token("TOKEN_EOF", text, p, 0)),
          var_counter |-> var_counter]
    ELSE IF text[p] \in {" ", "\t", "\n"}
    THEN tokenizeFrom(text, p + 1, toks, var_counter)
    ELSE IF \E q \in {<<"=", "=">>, <<"!", "=">>, <<"<", "=">>, <<">", "=">>,
                      <<"&", "&">>, <<"|", "|">>} : startswith(text, p, q)
    THEN tokenizeFrom(text, p + 2, Append(toks, new_token("TOKEN_RESERVED", text, p, 2)),
                      var_counter)
    ELSE IF startswith(text, p, <<"i", "f">>) /\ ~is_alnum(CharAt(text, p + 2))
    THEN tokenizeFrom(text, p + 2, Append(toks, new_token("TOKEN_IF", text, p, 2)),
                      var_counter)
    ELSE IF startswith(text, p, <<"e", "l", "s", "e">>) /\ ~is_alnum(CharAt(text, p + 4))
    THEN tokenizeFrom(text, p + 4, Append(toks, new_token("TOKEN_ELSE", text, p, 4)),
                      var_counter)
    ELSE IF /\ startswith(text, p, <<"r", "e", "t", "u", "r", "n">>)
            /\ ~is_alnum(CharAt(text, p + 6))
    THEN tokenizeFrom(text, p + 6, Append(toks, new_token("TOKEN_RETURN", text, p, 6)),
                      var_counter)
    ELSE IF text[p] \in {"+", "-", "*", "/", "(", ")", "<", ">", "=", ";", "{", "}"}
    THEN tokenizeFrom(text, p + 1, Append(toks, new_token("TOKEN_RESERVED", text, p, 1)),
                      var_counter)
    ELSE IF text[p] \in DigitChars \/ (text[p] = "." /\ CharAt(text, p + 1) \in DigitChars)
    THEN tokenizeFrom(text, StrtofEnd(text, p),
                      Append(toks, new_token("TOKEN_NUM", text, p, StrtofEnd(text, p) - p)),
                      var_counter)
    ELSE IF is_alpha(text[p])
    THEN tokenizeFrom(text, AlnumEnd(text, p),
                      Append(toks,
                             [kind |-> "TOKEN_IDENT",
                              str |-> SubSeq(text, p, AlnumEnd(text, p) - 1),
                              var_id |-> CountVar(var_counter,
                                                  SubSeq(text, p, AlnumEnd(text, p) - 1))
                                            [SubSeq(text, p, AlnumEnd(text, p) - 1)]]),
                      CountVar(var_counter, SubSeq(text, p, AlnumEnd(text, p) - 1)))
    ELSE [error |-> TRUE, tokens |-> toks, var_counter |-> var_counter]

\* tokenize(user_input, var_counter) with an empty var_counter; error_at
\* exits the program on a character that starts no token
tokenize(user_input) == tokenizeFrom(user_input, 1, <<>>, EmptyMap)

\* the pieces that the texts are put together from, without separators
Pieces ==
    {<<"i", "f">>, <<"i", "f", " ">>, <<"e", "l", "s", "e">>,
     <<"r", "e", "t", "u", "r", "n">>, <<"a">>, <<"b">>, <<"e">>, <<"1">>, <<" ">>,
     <<"=">>, <<"a", "=">>, <<"@">>}

MaxPieces == 4

RECURSIVE Texts(_)
Texts(n) ==
    IF n = 0 THEN {<<>>}
    ELSE Texts(n - 1) \cup {t \o q : t \in Texts(n - 1), q \in Pieces}

TokenizeCalls == {[fn |-> "tokenize", user_input |-> t] : t \in Texts(MaxPieces)}

InitLex ==
    /\ call \in TokenizeCalls
    /\ ret = [called |-> FALSE]
    /\ list = [l |-> EmptyList, pushed |-> <<>>, pushes |-> 0, pops |-> 0]
    /\ ExecIdle
    /\ SatIdle
    /\ ForkIdle
    /\ ProbIdle

\* Token *token = tokenize(user_input, var_counter)
TokenizeCall ==
    /\ call.fn = "tokenize"
    /\ ~ret.called
    /\ ret' = [called |-> TRUE, value |-> tokenize(call.user_input)]
    /\ UNCHANGED <<call, list, execVars, satVars, fork, probVars>>

NextLex == TokenizeCall

SpecLex == InitLex /\ [][NextLex]_vars

\* the positions of the identifier tokens
IdentPositions(toks) == {i \in DOMAIN toks : toks[i].kind = "TOKEN_IDENT"}

Keywords == {<<"i", "f">>, <<"e", "l", "s", "e">>, <<"r", "e", "t", "u", "r", "n">>}

\* C21: after tokenizing a text, the variable ids are exactly 0..n-1 in the
\* order of first occurrence of each distinct identifier, a later occurrence
\* of a name carries the same id, and if, else and return get no id
C21_VarIdsInOrderOfFirstOccurrence ==
    (call.fn = "tokenize" /\ ret.called /\ ~ret.value.error) =>
        LET toks == ret.value.tokens
            vc == ret.value.var_counter
            ids == IdentPositions(toks)
            EarlierNames(i) == {toks[j].str : j \in {k \in ids : k < i}}
        IN  /\ \A i \in ids :
                  /\ toks[i].str \notin EarlierNames(i)
                        => toks[i].var_id = Cardinality(EarlierNames(i))
                  /\ \A j \in ids : toks[j].str = toks[i].str => toks[j].var_id = toks[i].var_id
                  /\ vc[toks[i].str] = toks[i].var_id
            /\ DOMAIN vc = {toks[i].str : i \in ids}
            /\ {vc[x] : x \in DOMAIN vc} = 0..(Cardinality(DOMAIN vc) - 1)
            /\ DOMAIN vc \cap Keywords = {}
            /\ \A i \in DOMAIN toks :
                  toks[i].kind \in {"TOKEN_IF", "TOKEN_ELSE", "TOKEN_RETURN"}
                     => toks[i].str \in Keywords /\ toks[i].str \notin DOMAIN vc

\* a text with a keyword and two identifiers, the second of them after a
\* second occurrence of the first, has been tokenized
C21_Witness ==
    /\ call.fn = "tokenize"
    /\ ret.called
    /\ ~ret.value.error
    /\ \E i, j, k, m \in DOMAIN ret.value.tokens :
          /\ i < j /\ j < k
          /\ ret.value.tokens[m].kind \in {"TOKEN_IF", "TOKEN_ELSE", "TOKEN_RETURN"}
          /\ ret.value.tokens[i].kind = "TOKEN_IDENT" /\ ret.value.tokens[i].var_id = 0
          /\ ret.value.tokens[j].kind = "TOKEN_IDENT" /\ ret.value.tokens[j].var_id = 0
          /\ ret.value.tokens[k].kind = "TOKEN_IDENT" /\ ret.value.tokens[k].var_id = 1


(***************************************************************************)
(* Assignment of a literal (gen of ND_ASSIGN, Load and Store of symStep)   *)
(***************************************************************************)

\* the Store at pc ends the code of an assignment x = k with k a literal:
\* Push x; Load; Push k; Swap; Store
StoresLiteralAt(pc) ==
    /\ pc >= 4
    /\ InstrAt(pc).instr = "Store"
    /\ InstrAt(pc - 1).instr = "Swap"
    /\ InstrAt(pc - 2).instr = "Push"
    /\ InstrAt(pc - 3).instr = "Load"
    /\ InstrAt(pc - 4).instr = "Push"

\* this step of run applies symStep to the Store of an assignment x = k
StepsLiteralStore ==
    /\ frames /= <<>>
    /\ Top.phase = "enter"
    /\ StoresLiteralAt(states[Top.state].pc)
    /\ Len(frames') = Len(frames)
    /\ states'[Top.state].steps = states[Top.state].steps + 1

\* the entry of map m at key v, Undef when there is none
EntryOf(m, v) == IF v \in DOMAIN m THEN m[v] ELSE Undef

\* C22: after the compiled code of x = k with k a literal has run, mem[id(x)]
\* holds k and no other variable's mem or smem entry has changed, whatever
\* assignments to x came before
C22_AssignLiteralFrame ==
    [][StepsLiteralStore =>
          LET before == states[Top.state]
              after == states'[Top.state]
              x == wordToInt(InstrAt(before.pc - 4).word)
              k == InstrAt(before.pc - 2).word
          IN  /\ EntryOf(after.mem, x) = k
              /\ \A v \in (DOMAIN before.mem) \cup (DOMAIN after.mem)
                          \cup (DOMAIN before.smem) \cup (DOMAIN after.smem) :
                    v /= x => /\ EntryOf(after.mem, v) = EntryOf(before.mem, v)
                              /\ EntryOf(after.smem, v) = EntryOf(before.smem, v)]_vars


(***************************************************************************)
(* Nested if/else: the offsets of gen(ND_IF) followed by symStep           *)
(***************************************************************************)

\* the deepest nesting of if statements in the programs run
MaxNest == 2

IfConds == {Bin("ND_EQ", LVar(0), Num(1)), Bin("ND_LT", LVar(1), Num(1))}

IfLeaves == {Return(Num(1)), Assign(LVar(2), Num(1))}

\* the statements one if deeper than those of S: if with and without else,
\* and a block in which a statement follows
GrowIf(S) ==
    S \cup {If(c, t, e) : c \in IfConds, t \in S, e \in S \cup {NullNode}}
      \cup {Block(<<s, Assign(LVar(2), Num(2))>>) : s \in S}

RECURSIVE NestedStmts(_)
NestedStmts(n) == IF n = 0 THEN IfLeaves ELSE GrowIf(NestedStmts(n - 1))

\* the statement lists, ended by nullptr as generate_ast ends them
NestedCodes == {<<s, NullNode>> : s \in NestedStmts(MaxNest)}

\* where gen puts the pieces of every if statement inside node, the code of
\* node starting at pc base: gen(cond), Push, Swap, JmpIf, the else code (or
\* Nop), Push, Jmp, the then code
RECURSIVE IfSites(_, _)
IfSites(node, base) ==
    CASE node.kind = "ND_IF" ->
            LET jmpif == base + Len(gen(node.cond)) + 2
                els_len == IF node.els /= NullNode THEN Len(gen(node.els)) ELSE 1
                then_first == jmpif + 1 + els_len + 2
            IN  {[jmpif |-> jmpif, els_first |-> jmpif + 1,
                  els_code |-> IF node.els /= NullNode THEN gen(node.els)
                               ELSE <<Ins("Nop")>>,
                  jmp |-> jmpif + els_len + 2, then_first |-> then_first,
                  then_code |-> gen(node.then),
                  after |-> then_first + Len(gen(node.then))]}
                \cup (IF node.els /= NullNode THEN IfSites(node.els, jmpif + 1) ELSE {})
                \cup IfSites(node.then, then_first)
      [] node.kind = "ND_BLOCK" ->
            IF node.blocks = <<>> THEN {}
            ELSE IfSites(Head(node.blocks), base)
                 \cup IfSites(Block(Tail(node.blocks)),
                              base + Len(gen(Head(node.blocks))))
      [] OTHER -> {}

\* a run of SExecutor on a program of nested if statements, every pc a
\* target, with the budgets of test_workflow.cpp
InitIf ==
    /\ \E code \in NestedCodes :
          /\ prog = compile_ast(code)
          /\ conf = [program |-> "Nested", code |-> code, maxSAT |-> max_depth,
                     maxUNSAT |-> max_depth, maxDepth |-> max_depth]
    /\ maxSAT = max_depth
    /\ maxUNSAT = max_depth
    /\ frames = <<[state |-> 1, maxDepth |-> max_depth, newStates |-> <<>>,
                   phase |-> "enter"]>>
    /\ use_dpll = FALSE
    /\ target_pcs = {}
    /\ constraints_cache = EmptyMap
    /\ solved = EmptyMap
    /\ seed = InitialSeed
    /\ heap = <<>>
    /\ states = <<InitSymState(EmptyMap)>>
    /\ SatIdle
    /\ ForkIdle
    /\ ProbIdle
    /\ UnitIdle

SpecIf == InitIf /\ [][Next]_vars

\* this step of run applies symStep to the state at the top frame
StepsTop ==
    /\ frames /= <<>>
    /\ Top.phase = "enter"
    /\ Len(frames') = Len(frames)
    /\ states'[Top.state].steps = states[Top.state].steps + 1

\* C23: in the compiled code of nested if/else statements, the true
\* successor of every JmpIf is at the first instruction of the then-branch,
\* the false successor at the first instruction of the else-branch (the Nop
\* when there is no else), and the Jmp ending the else-branch moves pc to
\* the first instruction after the then-branch
C23_BranchTargets ==
    [][StepsTop =>
          \A s \in IfSites(conf.code[1], 0) :
              /\ SubSeq(prog, s.els_first + 1, s.els_first + Len(s.els_code)) = s.els_code
              /\ SubSeq(prog, s.then_first + 1, s.after) = s.then_code
              /\ states[Top.state].pc = s.jmpif =>
                    /\ InstrAt(s.jmpif).instr = "JmpIf"
                    /\ Len(states') = Len(states) + 2
                    /\ states'[Len(states) + 1].pc = s.then_first
                    /\ states'[Len(states) + 2].pc = s.els_first
              /\ states[Top.state].pc = s.jmp =>
                    /\ InstrAt(s.jmp).instr = "Jmp"
                    /\ states'[Top.state].pc = s.after]_vars

\* a run has taken the Jmp that ends the else-branch of an if nested in the
\* else-branch of another, and has entered a then-branch nested in a
\* then-branch
C23_Witness ==
    /\ conf.program = "Nested"
    /\ \E s, t \in IfSites(conf.code[1], 0) :
          /\ s.jmpif < t.jmpif /\ t.jmp < s.jmp
          /\ \E i \in 1..Len(states) : states[i].pc = t.after /\ states[i].steps > 0
                                        /\ states[i].branches = <<FALSE, FALSE>>
    /\ \E s, t \in IfSites(conf.code[1], 0) :
          /\ s.then_first <= t.jmpif /\ t.after <= s.after
          /\ \E i \in 1..Len(states) : states[i].pc = t.then_first
                                        /\ states[i].branches = <<TRUE, TRUE>>


(***************************************************************************)
(* symStep called on its own on JmpIf and Jmp (symbolic.h)                 *)
(***************************************************************************)

\* the largest number of Syms on the stack symStep is called with
MaxStack == 3

\* the largest jump offset on the stack
MaxOffset == 3

\* constants (jump offsets and a float), a variable, two comparisons
StackSyms ==
    {SymCon(w) : w \in 0..MaxOffset}
    \cup {SymCon(FloatToWord(1)), SymAny(0),
          SymBin("SEq", SymAny(0), SymCon(FloatToWord(1))),
          SymBin("SLt", SymAny(1), SymCon(FloatToWord(1)))}

\* the stacks pushed bottom first
Stacks == UNION {[1..n -> StackSyms] : n \in 1..MaxStack}

\* symbolic_stack.push of every Sym of seq from the k-th on
RECURSIVE PushAll(_, _, _, _)
PushAll(h, l, seq, k) ==
    IF k > Len(seq) THEN [heap |-> h, list |-> l]
    ELSE LET r == LLpush(h, l, seq[k]) IN PushAll(r.heap, r.list, seq, k + 1)

\* a SymState with the given pc, memories and stack
StateWith(pc, mem, smem, l) ==
    [InitSymState(mem) EXCEPT !.pc = pc, !.smem = smem, !.symbolic_stack = l]

JmpMems == {EmptyMap, MapPut(EmptyMap, 0, FloatToWord(1))}

JmpSmems == {EmptyMap, MapPut(EmptyMap, 1, SymAny(2))}

\* symStep(state, JmpIf or Jmp, result) on a state whose stack holds the
\* operands the instruction pops
InitJmp ==
    /\ \E stack \in Stacks, pc \in {0, 4}, mem \in JmpMems, smem \in JmpSmems,
          instr \in {Ins("JmpIf"), Ins("Jmp")} :
          /\ Len(stack) >= Needs(instr)
          /\ LET r == PushAll(<<>>, EmptyList, stack, 1)
             IN  /\ heap = r.heap
                 /\ states = <<StateWith(pc, mem, smem, r.list)>>
                 /\ call = [fn |-> "symStep", instr |-> instr,
                            state |-> StateWith(pc, mem, smem, r.list), stack |-> stack]
    /\ ret = [called |-> FALSE]
    /\ list = [l |-> EmptyList, pushed |-> <<>>, pushes |-> 0, pops |-> 0]
    /\ prog = <<>> /\ target_pcs = {} /\ use_dpll = FALSE /\ maxSAT = 0 /\ maxUNSAT = 0
    /\ constraints_cache = EmptyMap /\ seed = InitialSeed /\ frames = <<>>
    /\ solved = EmptyMap
    /\ conf = [program |-> "none", maxSAT |-> 0, maxUNSAT |-> 0, maxDepth |-> 0]
    /\ SatIdle
    /\ ForkIdle
    /\ ProbIdle

\* the call: states is the state as symStep leaves it followed by the copies
\* it made, ret.result the vector it filled
JmpStepCall ==
    /\ call.fn = "symStep"
    /\ ~ret.called
    /\ \E g1, g2 \in GarbageOf(call.instr) :
          \E r \in {symStep(heap, states[1], call.instr, g1, g2)} :
              /\ heap' = r.heap
              /\ states' = <<r.state>> \o r.forks
              /\ ret' = [called |-> TRUE, result |-> r.result]
    /\ UNCHANGED <<call, list, prog, target_pcs, use_dpll, maxSAT, maxUNSAT,
                   constraints_cache, seed, frames, conf, solved, satVars, fork,
                   probVars>>

NextJmp == JmpStepCall

SpecJmp == InitJmp /\ [][NextJmp]_vars

\* the Sym the call popped j-th
Popped(j) == call.stack[Len(call.stack) - j + 1]

\* what is left of the stack the call was made with once n Syms are popped
Below(n) == [j \in 1..(Len(call.stack) - n) |-> call.stack[Len(call.stack) - n - j + 1]]

\* C24: symStep on JmpIf with a constant addr emits exactly two successors:
\* first the true one, pc advanced by addr - 2 and the path constraints of
\* the parent followed by cond (simplified under mem), then the false one,
\* pc advanced by 1 and the path constraints followed by SNot(cond); cond and
\* addr are popped from the stack of both, and mem and smem are the parent's
C24_JmpIfSuccessors ==
    (ret.called /\ call.instr.instr = "JmpIf" /\ Popped(2).symtype = "SCon") =>
        LET parent == call.state
            cond == psimplify(Popped(1), parent.mem)
        IN  /\ ret.result = <<"true_state", "false_state">>
            /\ Len(states) = 3
            /\ states[2].pc = parent.pc + wordToInt(Popped(2).word) - 2
            /\ states[2].path_constraints = Append(parent.path_constraints, cond)
            /\ states[3].pc = parent.pc + 1
            /\ states[3].path_constraints =
                  Append(parent.path_constraints, SymUn("SNot", cond))
            /\ \A k \in 2..3 :
                  /\ StackView(heap, states[k].symbolic_stack, Len(heap) + 2) = Below(2)
                  /\ states[k].mem = parent.mem
                  /\ states[k].smem = parent.smem

\* JmpIf has forked a state with a Sym below addr, a concrete value in mem
\* that simplifies cond, and an smem entry
C24_Witness ==
    /\ ret.called /\ call.instr.instr = "JmpIf" /\ Popped(2).symtype = "SCon"
    /\ Len(call.stack) = 3
    /\ call.state.mem /= EmptyMap /\ call.state.smem /= EmptyMap
    /\ psimplify(Popped(1), call.state.mem) /= Popped(1)
    /\ Len(states) = 3 /\ states[2].pc /= states[3].pc

\* C25: symStep on a Jmp or JmpIf whose popped addr is not a constant emits
\* no successor state
C25_StuckEmitsNothing ==
    (/\ ret.called
     /\ Popped(IF call.instr.instr = "JmpIf" THEN 2 ELSE 1).symtype /= "SCon")
        => ret.result = <<>>


(***************************************************************************)
(* The DPLL solver on an unsatisfiable skeleton (smt.h, SExecutor::solve)  *)
(***************************************************************************)

\* satisfiableDPLL reports the Boolean skeleton of pcs unsatisfiable
SkeletonUnsat(pcs) == ~satisfiableDPLL(pathconstraints2expr(pcs), EmptyMap).sat

\* C26: with use_dpll, a constraint set whose Boolean skeleton DPLL reports
\* unsatisfiable (such as c and !c over one atom) is recorded in the cache
\* as UNSAT (is_sat = false)
C26_DpllUnsatRecorded ==
    use_dpll =>
        \A k \in DOMAIN constraints_cache :
            SkeletonUnsat(solved[k]) => ~constraints_cache[k].is_sat


(***************************************************************************)
(* fixNegations and cnf keep the truth value (sat.h)                       *)
(***************************************************************************)

Valuations == [{VarNames[i] : i \in DOMAIN VarNames} -> BOOLEAN]

\* C27: for every Boolean expression e and every total truth assignment,
\* fixNegations(e) and cnf(e) evaluate to the same truth value as e
C27_CnfKeepsTruth ==
    (call.fn = "cnf" /\ ret.called) =>
        \A v \in Valuations :
            /\ Truth(fixNegations(call.expr), v) = Truth(call.expr, v)
            /\ Truth(ret.value, v) = Truth(call.expr, v)


(***************************************************************************)
(* The cache and the two budgets (SExecutor::solve)                        *)
(***************************************************************************)

\* this step of run calls solve
SolveCalled ==
    /\ frames /= <<>>
    /\ Top.phase = "enter"
    /\ Len(states[Top.state].path_constraints) /= 0
    /\ is_target_pc(target_pcs, states[Top.state].pc)

\* the step leaves cache, budgets and optimizer alone and solves nothing
NothingSolved ==
    /\ constraints_cache' = constraints_cache
    /\ maxSAT' = maxSAT
    /\ maxUNSAT' = maxUNSAT
    /\ seed' = seed
    /\ solved' = solved

\* the step enters key, and nothing else, into the cache and takes one off
\* the budget of the verdict entered
OneEntryAdded(key) ==
    /\ key \notin DOMAIN constraints_cache
    /\ DOMAIN constraints_cache' = (DOMAIN constraints_cache) \cup {key}
    /\ \A k \in DOMAIN constraints_cache : constraints_cache'[k] = constraints_cache[k]
    /\ key \in DOMAIN solved'
    /\ IF constraints_cache'[key].is_sat
       THEN maxSAT' = maxSAT - 1 /\ maxUNSAT' = maxUNSAT
       ELSE maxSAT' = maxSAT /\ maxUNSAT' = maxUNSAT - 1

\* C28: all along a run started with an empty cache the satisfiable entries
\* number initial maxSAT - maxSAT and the unsatisfiable ones initial
\* maxUNSAT - maxUNSAT; a solve on a cached key calls no solver and changes
\* neither budgets nor cache, a miss adds one entry and takes one off
\* exactly one budget
C28_CacheMatchesBudgets ==
    /\ [](/\ Cardinality(SatEntries) = conf.maxSAT - maxSAT
          /\ Cardinality(UnsatEntries) = conf.maxUNSAT - maxUNSAT)
    /\ [][IF SolveCalled /\ StateToString(states[Top.state]) \notin DOMAIN constraints_cache
          THEN OneEntryAdded(StateToString(states[Top.state]))
          ELSE NothingSolved]_vars

\* an activation of run has called solve on a state whose key the calling
\* activation had already solved, and entries of both verdicts are cached
C28_Witness ==
    /\ SatEntries /= {}
    /\ UnsatEntries /= {}
    /\ \E n \in 2..Len(frames) :
          /\ frames[n].state = frames[n - 1].state
          /\ frames[n].phase = "loop"
          /\ states[frames[n].state].path_constraints /= <<>>


(***************************************************************************)
(* Pruning: no step on an unsatisfiable state or at Done (SExecutor::run)  *)
(***************************************************************************)

\* the cache key of the constraint set pcs
KeyOf(pcs) == StateToString([path_constraints |-> pcs])

\* the constraint set without its last constraint
Parent(pcs) == SubSeq(pcs, 1, Len(pcs) - 1)

\* C29: run never applies symStep to a state whose path constraints were
\* judged unsatisfiable at a target pc, nor to a state at Done; so, every pc
\* being a target, each cached constraint set of more than one constraint
\* extends a set that is cached as satisfiable
C29_NoStepOnUnsatOrDone ==
    /\ [][StepsTop =>
             /\ InstrAt(states[Top.state].pc).instr /= "Done"
             /\ SolveCalled =>
                   constraints_cache'[StateToString(states[Top.state])].is_sat]_vars
    /\ [](\A k \in DOMAIN constraints_cache :
             Len(solved[k]) > 1 =>
                 /\ KeyOf(Parent(solved[k])) \in DOMAIN constraints_cache
                 /\ constraints_cache[KeyOf(Parent(solved[k]))].is_sat)

\* a run has ended in which a set of three constraints is cached, a set is
\* cached as unsatisfiable, and a state has come to stand at Done
C29_Witness ==
    /\ Done
    /\ UnsatEntries /= {}
    /\ \E k \in DOMAIN constraints_cache : Len(solved[k]) >= 3
    /\ \E i \in 1..Len(states) : InstrAt(states[i].pc).instr = "Done"


(***************************************************************************)
(* Order of the two successors of a JmpIf (the loop of SExecutor::run)     *)
(***************************************************************************)

\* the states that are the false successor of the n-th JmpIf on the way to s
\* as symStep emitted it
FalseSiblings(s, n) ==
    {i \in 1..Len(states) :
        states[i].branches = Append(SubSeq(s.branches, 1, n - 1), FALSE)}

\* run has not been entered for state i: no activation holds it and solve
\* has not been called on its constraint set
NotYetRun(i) ==
    /\ KeyOf(states[i].path_constraints) \notin DOMAIN constraints_cache
    /\ \A n \in 1..Len(frames) : frames[n].state /= i

\* C30: for every JmpIf reached during run, the whole subtree of the true
\* successor, all its solver calls and cache insertions, is processed before
\* the first solver call for the false successor
C30_TrueSubtreeFirst ==
    [][SolveCalled =>
          \A n \in 1..Len(states[Top.state].branches) :
              states[Top.state].branches[n] =>
                  /\ FalseSiblings(states[Top.state], n) /= {}
                  /\ \A i \in FalseSiblings(states[Top.state], n) : NotYetRun(i)]_vars

\* the false successor of the first JmpIf is being solved after a cache
\* insertion two JmpIfs deep in the subtree of the true successor
C30_Witness ==
    /\ frames /= <<>>
    /\ states[Top.state].branches = <<FALSE>>
    /\ KeyOf(states[Top.state].path_constraints) \in DOMAIN constraints_cache
    /\ \E i \in 1..Len(states) :
          /\ Len(states[i].branches) = 2
          /\ states[i].branches[1]
          /\ KeyOf(states[i].path_constraints) \in DOMAIN constraints_cache

(***************************************************************************)
(* The retry loop of smt_union_solver (smt.h)                              *)
(***************************************************************************)

\* the params the j-th call of optimizer.solve is made with (j from 0)
TrialParams(j) == IF j = 0 THEN call.params ELSE initialize_params(call.mem)

\* the j-th call of optimizer.solve, made with the seed advanced j times
Trial(j) == GDsolve(call.path_constraints, TrialParams(j), call.seed + j, call.order)

\* the calls that succeed among the max_num_trials the loop can make
Succeeding == {j \in 0..(max_num_trials - 1) : Trial(j).is_sat}

RECURSIVE ItrUpTo(_)
ItrUpTo(j) == IF j < 0 THEN 0 ELSE Trial(j).itr + ItrUpTo(j - 1)

DpllAtoms ==
    {SymBin("SEq", SymAny(0), SymCon(FloatToWord(1))),
     SymBin("SEq", SymAny(0), SymCon(FloatToWord(2))),
     SymBin("SLt", SymAny(0), SymCon(FloatToWord(1)))}

\* the terms one connective deeper than those of S
GrowSym(S) ==
    S \cup {SymUn("SNot", a) : a \in S}
      \cup {SymBin("SAnd", a, b) : a, b \in S}
      \cup {SymBin("SOr", a, b) : a, b \in S}

\* conditions of one connective and their negations, as JmpIf appends them
DpllTerms == GrowSym(DpllAtoms) \cup {SymUn("SNot", t) : t \in GrowSym(DpllAtoms)}

\* most path constraints in a call
MaxConstraints == 2

DpllConstraints == UNION {[1..n -> DpllTerms] : n \in 1..MaxConstraints}

\* smt_dpll_solver(is_sat, state, params, optimizer, ...) called as
\* SExecutor::solve calls it on a state with an empty memory
DpllSolverCalls ==
    {[fn |-> "smt_dpll_solver", path_constraints |-> pcs, mem |-> EmptyMap,
      params |-> initialize_params(EmptyMap), seed |-> InitialSeed, order |-> ord] :
        pcs \in DpllConstraints, ord \in {<<0, 1>>, <<1, 0>>}}

InitDpll ==
    /\ call \in DpllSolverCalls
    /\ ret = [called |-> FALSE]
    /\ list = [l |-> EmptyList, pushed |-> <<>>, pushes |-> 0, pops |-> 0]
    /\ ExecIdle
    /\ SatIdle
    /\ ForkIdle
    /\ ProbIdle

DpllSolverCall ==
    /\ call.fn = "smt_dpll_solver"
    /\ ~ret.called
    /\ ret' = [called |-> TRUE,
               value |-> smt_dpll_solver(TRUE, call.path_constraints, call.mem,
                                         call.params, call.seed, call.order)]
    /\ UNCHANGED <<call, list, execVars, satVars, fork, probVars>>

NextDpll == DpllSolverCall

SpecDpll == InitDpll /\ [][NextDpll]_vars

\* C32: smt_dpll_solver never hands the same truth assignment of the atoms
\* to the gradient optimizer in two rounds, and so ends after at most 2^n
\* rounds for n distinct atoms
C32_NoAssignmentTwice ==
    (call.fn = "smt_dpll_solver" /\ ret.called) =>
        /\ \A i, j \in DOMAIN ret.value.rounds :
              i /= j => ret.value.rounds[i] /= ret.value.rounds[j]
        /\ Len(ret.value.rounds) <=
              Pow2(Cardinality(DOMAIN unique_terms_map(call.path_constraints)))

\* the solver has gone through three rounds: two assignments failed in the
\* optimizer before one succeeded
C32_Witness ==
    /\ call.fn = "smt_dpll_solver"
    /\ ret.called
    /\ Len(ret.value.rounds) >= 3
    /\ ret.value.is_sat


(***************************************************************************)
(* GDOptimizer::solve: the variables given in params (gd.h)                *)
(***************************************************************************)

\* C33: GDOptimizer::solve with is_init_params_const = true returns every
\* variable that was in params at the call with the value it had; the
\* variables it adds are those of the constraints that were missing
C33_GivenParamsKept ==
    (call.fn = "GDOptimizer::solve" /\ ret.called) =>
        /\ \A x \in DOMAIN call.params :
              /\ x \in DOMAIN ret.value.params
              /\ ret.value.params[x] = call.params[x]
        /\ DOMAIN ret.value.params =
              DOMAIN call.params \cup UnionVarIds(call.path_constraints)

\* solve has run its loop on a call that gave var_0 only, with a value that
\* violates the constraint, and has moved the var_1 it drew itself
C33_Witness ==
    /\ call.fn = "GDOptimizer::solve"
    /\ ret.called
    /\ DOMAIN call.params = {0}
    /\ ret.value.itr > 0
    /\ ret.value.params[0] = call.params[0]
    /\ ret.value.params[1] /=
          DrawParams(<<1>>, call.params, call.seed, 1)[1]


(***************************************************************************)
(* GDOptimizer::solve called on its own on the solver constraints (gd.h)   *)
(***************************************************************************)

\* the solver constraints and an equality between two variables, which the
\* signed updates of both sides cannot reach from an odd difference
SolveConstraints ==
    SolverConstraints \cup {<<SymBin("SEq", SymAny(0), SymAny(1))>>}

\* optimizer.solve(state.path_constraints, params) with the params that
\* initialize_params leaves for the memory
SolveCalls ==
    {[fn |-> "GDOptimizer::solve", path_constraints |-> pcs,
      params |-> initialize_params(mem), seed |-> sd, order |-> ord] :
        pcs \in SolveConstraints, mem \in SolverMems,
        sd \in InitialSeed..(InitialSeed + MaxCountSeeds - 1),
        ord \in {<<0, 1>>, <<1, 0>>}}

InitGD ==
    /\ call \in SolveCalls
    /\ ret = [called |-> FALSE]
    /\ list = [l |-> EmptyList, pushed |-> <<>>, pushes |-> 0, pops |-> 0]
    /\ ExecIdle
    /\ SatIdle
    /\ ForkIdle
    /\ ProbIdle

NextGD == GDSolveCall

SpecGD == InitGD /\ [][NextGD]_vars

\* the params after solve has drawn the variables missing from them
InitialParams ==
    DrawParams(InOrder(call.order, UnionVarIds(call.path_constraints)),
               call.params, call.seed, 1)

\* C34: a call of GDOptimizer::solve makes at most num_epochs passes of its
\* update loop, and makes none and returns true when the constraint list is
\* empty or the initial params satisfy it
C34_EpochsBounded ==
    (call.fn = "GDOptimizer::solve" /\ ret.called) =>
        /\ ret.value.itr \in 0..num_epochs
        /\ (\/ call.path_constraints = <<>>
            \/ \A i \in DOMAIN call.path_constraints :
                  eval(call.path_constraints[i], InitialParams, eps) <= 0)
              => (ret.value.itr = 0 /\ ret.value.is_sat)

\* solve has used all its passes without satisfying var_0 == var_1
C34_Witness ==
    /\ call.fn = "GDOptimizer::solve"
    /\ ret.called
    /\ call.params = EmptyMap
    /\ ret.value.itr = num_epochs
    /\ ~ret.value.is_sat


(***************************************************************************)
(* Sym::eval on the terms of conditions (type.h)                           *)
(***************************************************************************)

\* largest magnitude of a variable's value in the evaluated terms
MaxEvalVal == 2

\* the sides of a comparison: a variable, a constant, a sum, a difference and
\* a product
EvalLefts ==
    {SymAny(0),
     SymBin("SAdd", SymAny(0), SymAny(1)),
     SymBin("SMul", SymAny(0), SymAny(1))}

EvalRights ==
    {SymAny(1), SymCon(FloatToWord(1)), SymBin("SSub", SymAny(1), SymCon(FloatToWord(2)))}

EvalAtoms == {SymBin(op, l, r) : op \in {"SEq", "SLt", "SLe"}, l \in EvalLefts, r \in EvalRights}

\* the atoms, their negations, the conjunctions and disjunctions of those,
\* and the negations of all of these
EvalTerms ==
    With(EvalAtoms \cup {SymUn("SNot", a) : a \in EvalAtoms}, LAMBDA lits :
    With(lits \cup {SymBin(op, a, b) : op \in {"SAnd", "SOr"}, a \in lits, b \in EvalAtoms},
         LAMBDA ts : ts \cup {SymUn("SNot", t) : t \in ts}))

EvalVals == [{0, 1} -> (0 - MaxEvalVal)..MaxEvalVal]

EvalCalls == {[fn |-> "Sym::eval", sym |-> t, cvals |-> c] : t \in EvalTerms, c \in EvalVals}

InitEval ==
    /\ call \in EvalCalls
    /\ ret = [called |-> FALSE]
    /\ list = [l |-> EmptyList, pushed |-> <<>>, pushes |-> 0, pops |-> 0]
    /\ ExecIdle
    /\ SatIdle
    /\ ForkIdle
    /\ ProbIdle

\* path_constraints[i].eval(params, eps)
TermEvalCall ==
    /\ call.fn = "Sym::eval"
    /\ ~ret.called
    /\ ret' = [called |-> TRUE, value |-> eval(call.sym, call.cvals, eps)]
    /\ UNCHANGED <<call, list, execVars, satVars, fork, probVars>>

NextEval == TermEvalCall

SpecEval == InitEval /\ [][NextEval]_vars

\* the integer an arithmetic term denotes
RECURSIVE Denotes(_, _)
Denotes(s, cvals) ==
    CASE s.symtype = "SAny" -> cvals[s.var_idx]
      [] s.symtype = "SCon" -> wordToFloat(s.word)
      [] s.symtype = "SAdd" -> Denotes(s.left, cvals) + Denotes(s.right, cvals)
      [] s.symtype = "SSub" -> Denotes(s.left, cvals) - Denotes(s.right, cvals)
      [] s.symtype = "SMul" -> Denotes(s.left, cvals) * Denotes(s.right, cvals)

\* the truth of a term under the ordinary meaning of its connectives
RECURSIVE IsTrue(_, _)
IsTrue(s, cvals) ==
    CASE s.symtype = "SEq" -> Denotes(s.left, cvals) = Denotes(s.right, cvals)
      [] s.symtype = "SLt" -> Denotes(s.left, cvals) < Denotes(s.right, cvals)
      [] s.symtype = "SLe" -> Denotes(s.left, cvals) <= Denotes(s.right, cvals)
      [] s.symtype = "SNot" -> ~IsTrue(s.left, cvals)
      [] s.symtype = "SAnd" -> IsTrue(s.left, cvals) /\ IsTrue(s.right, cvals)
      [] s.symtype = "SOr" -> IsTrue(s.left, cvals) \/ IsTrue(s.right, cvals)

\* C35: with integer values and eps = 1, Sym::eval of a term built from ==,
\* <, <=, !, && and || is <= 0 exactly when the term is true; for a <= b that
\* is a <= b and for a < b it is a + eps <= b
C35_EvalSignIsTruth ==
    (call.fn = "Sym::eval" /\ call \in EvalCalls /\ ret.called) =>
        /\ (ret.value <= 0) <=> IsTrue(call.sym, call.cvals)
        /\ call.sym.symtype = "SLe" =>
              ((ret.value <= 0) <=>
                  Denotes(call.sym.left, call.cvals) <= Denotes(call.sym.right, call.cvals))
        /\ call.sym.symtype = "SLt" =>
              ((ret.value <= 0) <=>
                  Denotes(call.sym.left, call.cvals) + eps
                      <= Denotes(call.sym.right, call.cvals))

\* eval has returned a positive value for the negation of a disjunction one
\* side of which holds
C35_Witness ==
    /\ call.fn = "Sym::eval"
    /\ call \in EvalCalls
    /\ ret.called
    /\ call.sym.symtype = "SNot"
    /\ call.sym.left.symtype = "SOr"
    /\ IsTrue(call.sym.left.left, call.cvals)
    /\ ~IsTrue(call.sym.left.right, call.cvals)
    /\ ret.value > 0


(***************************************************************************)
(* unitClause and literalPolarity called on their own (sat.h)              *)
(***************************************************************************)

\* the entry of name in a polarity map, or "none"
PolarityOf(polarity_map, name) ==
    IF name \in DOMAIN polarity_map THEN polarity_map[name] ELSE "none"

\* the loops of And::literalPolarity and Or::literalPolarity: the entries of
\* the left map, then those of the right map, Mixed where the two differ
MergePolarity(left_polarity, right_polarity) ==
    [n \in (DOMAIN left_polarity) \cup (DOMAIN right_polarity) |->
        IF n \notin DOMAIN left_polarity THEN right_polarity[n]
        ELSE IF n \notin DOMAIN right_polarity THEN left_polarity[n]
        ELSE IF left_polarity[n] /= right_polarity[n] THEN "Mixed"
        ELSE left_polarity[n]]

\* Expr::literalPolarity(var): Not compares expr->name, the base-class member
RECURSIVE literalPolarity(_, _)
literalPolarity(e, var) ==
    CASE e.opcode = "VAR" ->
            IF e.vname = var THEN MapPut(EmptyMap, var, "Positive") ELSE EmptyMap
      [] e.opcode = "NOT" ->
            IF e.expr.opcode = "VAR" /\ e.expr.name = var
            THEN MapPut(EmptyMap, e.expr.name, "Negative") ELSE EmptyMap
      [] e.opcode \in {"AND", "OR"} ->
            MergePolarity(literalPolarity(e.left, var), literalPolarity(e.right, var))
      [] OTHER -> EmptyMap

\* the expressions of depth two over the variables and the constants
BoolExprs == Grow(Grow(Atoms))

BoolCalls ==
    {[fn |-> "unitClause", expr |-> e] : e \in BoolExprs}
    \cup {[fn |-> "literalPolarity", expr |-> e, var |-> VarNames[i]] :
             e \in BoolExprs, i \in 1..NumSatVars}

InitBool ==
    /\ call \in BoolCalls
    /\ ret = [called |-> FALSE]
    /\ list = [l |-> EmptyList, pushed |-> <<>>, pushes |-> 0, pops |-> 0]
    /\ ExecIdle
    /\ SatIdle
    /\ ForkIdle
    /\ ProbIdle

\* auto uc = e->unitClause()
UnitClauseCall ==
    /\ call.fn = "unitClause"
    /\ ~ret.called
    /\ ret' = [called |-> TRUE, value |-> unitClause(call.expr)]
    /\ UNCHANGED <<call, list, execVars, satVars, fork, probVars>>

\* polarity_map = expr->literalPolarity(var)
LiteralPolarityCall ==
    /\ call.fn = "literalPolarity"
    /\ ~ret.called
    /\ ret' = [called |-> TRUE, value |-> literalPolarity(call.expr, call.var)]
    /\ UNCHANGED <<call, list, execVars, satVars, fork, probVars>>

NextBool == UnitClauseCall \/ LiteralPolarityCall

SpecBool == InitBool /\ [][NextBool]_vars

\* C36: unitClause returns (x, true) on Var x, (x, false) on Not(Var x), and
\* an empty name on every expression that is not a literal
C36_UnitClauseOfLiterals ==
    (call.fn = "unitClause" /\ ret.called) =>
        /\ call.expr.opcode = "VAR" => ret.value = <<call.expr.vname, TRUE>>
        /\ (call.expr.opcode = "NOT" /\ call.expr.expr.opcode = "VAR") =>
              ret.value = <<call.expr.expr.vname, FALSE>>
        /\ ~IsLiteral(call.expr) => ret.value[1] = ""

\* the occurrences of var in e that are not under a negation
RECURSIVE OccursPlain(_, _)
OccursPlain(e, var) ==
    CASE e.opcode = "VAR" -> e.vname = var
      [] e.opcode \in {"AND", "OR"} -> OccursPlain(e.left, var) \/ OccursPlain(e.right, var)
      [] OTHER -> FALSE

\* the occurrences of var in e that are directly under a negation
RECURSIVE OccursNegated(_, _)
OccursNegated(e, var) ==
    CASE e.opcode = "NOT" -> e.expr.opcode = "VAR" /\ e.expr.vname = var
      [] e.opcode \in {"AND", "OR"} ->
            OccursNegated(e.left, var) \/ OccursNegated(e.right, var)
      [] OTHER -> FALSE

\* every negation of e is on a variable
RECURSIVE NegationsOnVars(_)
NegationsOnVars(e) ==
    CASE e.opcode = "NOT" -> e.expr.opcode = "VAR"
      [] e.opcode \in {"AND", "OR"} -> NegationsOnVars(e.left) /\ NegationsOnVars(e.right)
      [] OTHER -> TRUE

\* C37: literalPolarity reports var Positive when every occurrence of it is
\* un-negated, Negative when every occurrence is directly under a negation,
\* and Mixed when both kinds occur (expressions whose negations are all on
\* variables)
C37_PolarityOfOccurrences ==
    (call.fn = "literalPolarity" /\ ret.called /\ NegationsOnVars(call.expr)) =>
        /\ (OccursPlain(call.expr, call.var) /\ ~OccursNegated(call.expr, call.var)) =>
              PolarityOf(ret.value, call.var) = "Positive"
        /\ (OccursNegated(call.expr, call.var) /\ ~OccursPlain(call.expr, call.var)) =>
              PolarityOf(ret.value, call.var) = "Negative"
        /\ (OccursPlain(call.expr, call.var) /\ OccursNegated(call.expr, call.var)) =>
              PolarityOf(ret.value, call.var) = "Mixed"


(***************************************************************************)
(* run_pgymbo on programs with paths that cannot be taken (psymbolic.h)    *)
(***************************************************************************)

\* the programs run, each with a path whose constraints the solver rejects
\* or a branch on a variable that can be registered as random
DoneProgNames == {"Twice", "Ne", "And", "Or", "Alias"}

InitPDone ==
    /\ \E name \in DoneProgNames, ms, mu \in Budgets :
          /\ prog = ProgOf(name)
          /\ maxSAT = ms
          /\ maxUNSAT = mu
          /\ frames = <<[state |-> 1, maxDepth |-> max_depth, newStates |-> <<>>,
                         phase |-> "enter"]>>
          /\ conf = [program |-> name, maxSAT |-> ms, maxUNSAT |-> mu,
                     maxDepth |-> max_depth]
    /\ use_dpll \in BOOLEAN
    /\ target_pcs = {}
    /\ constraints_cache = EmptyMap
    /\ solved = EmptyMap
    /\ seed = InitialSeed
    /\ heap = <<>>
    /\ states = <<InitSymState(EmptyMap)>>
    /\ random_vars \in {{}, register_random_var({}, 1)}
    /\ prob_constraints_table = EmptyMap
    /\ SatIdle
    /\ ForkIdle
    /\ UnitIdle

SpecPDone == InitPDone /\ [][NextProb]_vars

\* the state the activation on top of the stack was entered with, as the step
\* leaves it
Entered == states'[Top.state]

\* the step is a return of run_pgymbo from a state at Done with a non-empty
\* path constraint
ReturnsAtDone ==
    /\ frames /= <<>>
    /\ Top.phase = "enter"
    /\ frames' = PopFrame
    /\ InstrAt(Entered.pc).instr = "Done"
    /\ Len(Entered.path_constraints) > 0

\* what solve_pconstraints said of the state the step ends in
Judged(verdict) ==
    /\ StateToString(Entered) \in DOMAIN constraints_cache'
    /\ constraints_cache'[StateToString(Entered)].is_sat = verdict

\* the table has one more entry under pc, holding the conjunction of the
\* path constraints and the memory of st, and is otherwise the same
OneEntryAppended(st) ==
    /\ DOMAIN prob_constraints_table' = DOMAIN prob_constraints_table \cup {st.pc}
    /\ \A pc \in DOMAIN prob_constraints_table : pc /= st.pc =>
          prob_constraints_table'[pc] = prob_constraints_table[pc]
    /\ prob_constraints_table'[st.pc] =
          (IF st.pc \in DOMAIN prob_constraints_table
           THEN prob_constraints_table[st.pc] ELSE <<>>)
          \o <<[cc |-> AndChain(st.path_constraints, Len(st.path_constraints)),
                mem |-> st.mem, p |-> st.p]>>

\* C38 as stated: an entry is appended only for a Done state whose path
\* constraints were judged satisfiable, and a Done state whose path
\* constraints were judged unsatisfiable adds none
C38_OnlySatisfiableRecorded ==
    [][/\ prob_constraints_table' /= prob_constraints_table =>
             (ReturnsAtDone /\ Judged(TRUE))
       /\ (ReturnsAtDone /\ Judged(FALSE)) =>
             prob_constraints_table' = prob_constraints_table]_vars

\* C38, amended: an entry is appended exactly for a Done state with a
\* non-empty path constraint, whether its path constraints were judged
\* satisfiable or unsatisfiable
C38_EveryDoneRecorded ==
    [][IF ReturnsAtDone THEN OneEntryAppended(Entered)
       ELSE prob_constraints_table' = prob_constraints_table]_vars

\* the table holds the entry of a Done state whose path constraints the cache
\* records as unsatisfiable
C38_Witness ==
    \E i \in DOMAIN states :
        /\ InstrAt(states[i].pc).instr = "Done"
        /\ Len(states[i].path_constraints) > 0
        /\ StateToString(states[i]) \in DOMAIN constraints_cache
        /\ ~constraints_cache[StateToString(states[i])].is_sat
        /\ states[i].pc \in DOMAIN prob_constraints_table
        /\ \E k \in DOMAIN prob_constraints_table[states[i].pc] :
              /\ prob_constraints_table[states[i].pc][k].cc =
                    AndChain(states[i].path_constraints, Len(states[i].path_constraints))
              /\ prob_constraints_table[states[i].pc][k].mem = states[i].mem


(***************************************************************************)
(* SExecutor::run with return_trace = true (symbolic.h, type.h)            *)
(***************************************************************************)

\* Trace(data, children); visited and successors are a history of the state
\* the activation was entered with and of the states symStep gave it (not
\* fields of the program)
TraceNode(data, children, visited, successors) ==
    [data |-> data, children |-> children, visited |-> visited,
     successors |-> successors]

\* the Trace an activation returns reaches its caller: children.push_back(child)
\* in the activation below it, or the value of the outermost call
PushBackChild(open, child) ==
    IF open = <<>> THEN [called |-> TRUE, value |-> child, open |-> <<>>]
    ELSE [called |-> FALSE,
          open |-> [open EXCEPT ![Len(open)].children = Append(@, child)]]

\* the programs run with return_trace = true
TraceProgNames == {"Ne", "Twice", "And", "Or", "Reassign"}

InitTrace ==
    /\ \E name \in TraceProgNames, ms \in Budgets :
          /\ prog = ProgOf(name)
          /\ maxSAT = ms
          /\ maxUNSAT = max_depth
          /\ frames = <<[state |-> 1, maxDepth |-> max_depth, newStates |-> <<>>,
                         phase |-> "enter"]>>
          /\ conf = [program |-> name, maxSAT |-> ms, maxUNSAT |-> max_depth,
                     maxDepth |-> max_depth]
    /\ use_dpll \in BOOLEAN
    /\ target_pcs = {}
    /\ constraints_cache = EmptyMap
    /\ solved = EmptyMap
    /\ seed = InitialSeed
    /\ heap = <<>>
    /\ states = <<InitSymState(EmptyMap)>>
    /\ call = [fn |-> "SExecutor::run"]
    /\ ret = [called |-> FALSE, open |-> <<>>]
    /\ list = [l |-> EmptyList, pushed |-> <<>>, pushes |-> 0, pops |-> 0]
    /\ SatIdle
    /\ ForkIdle
    /\ ProbIdle

\* run from its entry: return Trace(state, {}) when it does not step, and
\* otherwise the start of the loop that collects the children
TraceEnter ==
    /\ RunEnterStep
    /\ ret' = IF Len(frames') < Len(frames)
              THEN PushBackChild(ret.open,
                                 TraceNode(states'[Top.state], <<>>, states[Top.state],
                                           <<>>))
              ELSE [ret EXCEPT !.open =
                       Append(@, [visited |-> states[Top.state],
                                  successors |->
                                      [k \in DOMAIN frames'[Len(frames)].newStates |->
                                          states'[frames'[Len(frames)].newStates[k]]],
                                  children |-> <<>>])]
    /\ UNCHANGED <<prog, target_pcs, use_dpll, conf, satVars, fork, probVars, call, list>>

\* return Trace(state, children) once the loop is over: state is the object
\* the activation was given, as it is now
TraceReturn ==
    /\ RunReturnStep
    /\ ret' = PushBackChild(SubSeq(ret.open, 1, Len(ret.open) - 1),
                            TraceNode(states[Top.state],
                                      ret.open[Len(ret.open)].children,
                                      ret.open[Len(ret.open)].visited,
                                      ret.open[Len(ret.open)].successors))
    /\ UNCHANGED <<prog, target_pcs, use_dpll, maxSAT, maxUNSAT, constraints_cache, seed,
                   heap, states, conf, solved, satVars, fork, probVars, call, list>>

NextTrace == TraceEnter \/ RunChild \/ TraceReturn

SpecTrace == InitTrace /\ [][NextTrace]_vars

\* the nodes of a Trace
RECURSIVE TraceNodes(_)
TraceNodes(t) == {t} \cup UNION {TraceNodes(t.children[k]) : k \in DOMAIN t.children}

\* the two states agree on every field of SymState
SameSymState(a, b) ==
    /\ a.pc = b.pc
    /\ a.var_cnt = b.var_cnt
    /\ a.mem = b.mem
    /\ a.smem = b.smem
    /\ a.symbolic_stack = b.symbolic_stack
    /\ a.path_constraints = b.path_constraints
    /\ a.p = b.p

\* C39: in the Trace returned by SExecutor::run with return_trace = true the
\* data of every node is the state as it was when the node was visited (its
\* pc that of the instruction examined there), and the children of a node are
\* the traces of the symStep successors of that state, one for each
C39_TraceKeepsVisitedStates ==
    (call.fn = "SExecutor::run" /\ ret.called) =>
        \A n \in TraceNodes(ret.value) :
            /\ SameSymState(n.data, n.visited)
            /\ Len(n.children) = Len(n.successors)
            /\ \A k \in DOMAIN n.children :
                  SameSymState(n.children[k].visited, n.successors[k])


(***************************************************************************)
(* gen called on return statements (compiler.h)                            *)
(***************************************************************************)

\* the expressions returned: the operands and the binary expressions of
\* add(), mul(), relational() and equality() over them
ReturnExprs ==
    Operands \cup {Bin(k, l, r) : k \in {"ND_ADD", "ND_SUB", "ND_MUL", "ND_EQ", "ND_LT"},
                                  l, r \in Operands}

GenCalls == {[fn |-> "gen", node |-> Return(e)] : e \in ReturnExprs}

InitGen ==
    /\ call \in GenCalls
    /\ ret = [called |-> FALSE]
    /\ list = [l |-> EmptyList, pushed |-> <<>>, pushes |-> 0, pops |-> 0]
    /\ ExecIdle
    /\ SatIdle
    /\ ForkIdle
    /\ ProbIdle

\* gen(node, prg) with an empty prg
GenCall ==
    /\ call.fn = "gen"
    /\ ~ret.called
    /\ ret' = [called |-> TRUE, value |-> gen(call.node)]
    /\ UNCHANGED <<call, list, execVars, satVars, fork, probVars>>

NextGen == GenCall

SpecGen == InitGen /\ [][NextGen]_vars

\* C40 as stated: the code generated for `return e` is the code generated for
\* the expression e followed by a Done instruction
C40_ReturnCompilesExpression ==
    (call.fn = "gen" /\ ret.called) =>
        ret.value = gen(call.node.lhs) \o <<Ins("Done")>>

\* C40, amended: the code generated for `return e` is a single Done
\* instruction, and nothing is generated for the expression e
C40_ReturnIsDone ==
    (call.fn = "gen" /\ ret.called) => ret.value = <<Ins("Done")>>

\* gen has returned for `return a + 1`, whose expression compiles to four
\* instructions on its own
C40_Witness ==
    /\ call.fn = "gen"
    /\ ret.called
    /\ call.node.lhs = Bin("ND_ADD", LVar(0), Num(1))
    /\ Len(gen(call.node.lhs)) = 4
    /\ Len(ret.value) = 1

=============================================================================
